---------------------------- MODULE Spec2Model ----------------------------
(***************************************************************************)
(* A model of trollibox's MPD player adapter, track cache and filter       *)
(* engine:                                                                 *)
(*   - the pooled connections of src/player/mpd/mpd.go (reusableClient,    *)
(*     Connect, newClient, withMpd)                            PoolSpec    *)
(*   - the Sync Loop (Player.mainLoop), SetPlaylist and the daemon's       *)
(*     queue                                                   SyncSpec    *)
(*   - the TrackCache of src/filter/filter.go (second half)    CacheSpec   *)
(*   - filter.Tracks and ByNumMatches                          FilterSpec  *)
(* Each specification moves the variables of its own component and leaves  *)
(* the others at their initial values.                                     *)
(***************************************************************************)
EXTENDS Integers, Sequences, FiniteSets, TLC

(***************************************************************************)
(* Bounds of the model.                                                    *)
(***************************************************************************)
\* Slots of the client pool.  The source makes the channel with capacity 6
\* (mpd.go:102); the model runs the same code with a smaller pool.
PoolCap == 2
\* reusableClient objects that may exist at once (pooled, held, or replaced
\* and not yet collected).
NumRc == 3
\* Goroutines calling withMpd concurrently.
NumCallers == 2

\* Tracks of the daemon's catalogue.
MaxCat == 2
\* Player.Tracks() invocations made by cache reloads.
MaxLoads == 2
\* Player events the TrackCache's Run goroutine is sent.
MaxCacheEvents == 2

\* Tracks handed to filter.Tracks.
MaxTracks == 3
\* runtime.NumCPU() at most.
MaxCPU == 2
\* Matches a filter records on one track at most.
MaxMatches == 2

\* Entries of the daemon's queue, and of a playlist given to SetPlaylist.
MaxQueue == 3
\* Events the Sync Loop's listener channel buffers.
ListenerCap == 2
\* Changes made from outside the Sync Loop: by other clients of the daemon,
\* by the daemon's playback, and by calls of SetPlaylist.
MaxChanges == 2
\* Queue lengths the player with a caller of Playlist() starts from.
MaxLockQueue == 1
\* Notifications the daemon sends to the watcher, and those the watcher holds
\* undelivered.
MaxNotifs == 3
MaxPending == 2
\* Calls of mpd.NewWatcher.
MaxAttempts == 3
\* Tracks a PlaylistMetaKeeper holds, and those of one InsertWithMeta.
MaxKeeper == 3
MaxInsert == 2

VARIABLES
    \* ---- connection pool (mpd.go:27-150)
    clientPool,  \* Player.clientPool: the buffered channel, a sequence of rc ids
    rcClient,    \* reusableClient.client per object: "set" or "nil"
    rcConn,      \* the mpd connection of the object: "open" or "closed"
    rcLock,      \* reusableClient.Mutex: 0 free, a caller id, or SupId
    rcReset,     \* reusableClient.reset: "open" or "closed"
    supPc,       \* position of the object's run() goroutine
    wPc,         \* position of each withMpd caller
    wRc,         \* the caller's local reClient (0: none)
    wErr,        \* what the caller's last withMpd returned ("": nothing yet)
    \* ---- track cache (filter.go:272-362)
    cTracks,     \* TrackCache.tracks: <<>> is nil, <<list>> a slice
    cIndex,      \* TrackCache.index: <<>> is nil, <<m>> a map Uri -> slot of tracks
    cErr,        \* TrackCache.err: "" is nil
    rwReaders,   \* TrackCache.lock: the goroutines holding it shared
    rwW,         \* TrackCache.lock: the goroutine in Lock() or holding it (0: none)
    cPc,         \* position of each goroutine using the cache
    cOp,         \* the method the goroutine is in
    cArg,        \* TrackInfo's uri argument
    rNew,        \* reloadTracks' local tracks (<<>> after an error)
    rI,          \* reloadTracks' loop index
    cListener,   \* Run's listener on the player's events
    cSent,       \* history: the events the player has emitted to that listener
    cVer,        \* history: the number of "tracks" events emitted before cache.tracks was fetched
    rVer,        \* history: the same for reloadTracks' local tracks
    cOut,        \* events the cache has emitted to its own subscribers
    dbTracks,    \* the catalogue Player.Tracks() returns
    cLoads,      \* history: Player.Tracks() invocations made by reloadTracks
    cClean,      \* history: every load so far was made by Tracks() and succeeded
    \* ---- filter.Tracks (filter.go:51-100)
    fTracks,     \* the argument tracks: per track what the filter says of it
    numCPU,      \* runtime.NumCPU()
    fNext,       \* the producer's position in tracks
    tsClosed,    \* trackStream is closed
    wkPc,        \* position of each worker goroutine
    wkItem,      \* the track a worker holds (its position in tracks, 0: none)
    wg,          \* the WaitGroup's counter
    msClosed,    \* matchStream is closed
    results,     \* the caller's results
    fPc,         \* position of the caller of Tracks
    ranked,      \* the results after the caller's sort
    \* ---- the daemon (what the commands of mpd.go read and write)
    queue,       \* the daemon's queue: the "file" of each song
    song,        \* the "song" of the daemon's status: the play cursor
    mpdState,    \* the "state" of the daemon's status
    stickers,    \* the "play-count" sticker of each catalogue file (0: none)
    pendingNotif,\* subsystems the daemon has yet to report to the watcher
    \* ---- Sync Loop and SetPlaylist (mpd.go:152-316, 449-497)
    playlist,    \* Player.playlist
    lastTrack,   \* Player.lastTrack
    playlistLock,\* Player.playlistLock: "" free, or its holder
    listener,    \* mainLoop's listener channel
    mlPc,        \* position of mainLoop
    mlSong,      \* removePlayedTracks' local songIndex
    mlSeek,      \* the progress the "playlist" handler has sought to (0: none)
    spPc,        \* position of the caller of SetPlaylist
    spPlist,     \* SetPlaylist's argument plist
    spDel,       \* SetPlaylist's local delStart
    spLen,       \* SetPlaylist's len(songs)
    spErr,       \* what the last SetPlaylist returned ("": nothing yet, or in progress)
    changes,     \* history: changes made from outside the Sync Loop
    stale,       \* history: the queue was changed from outside since the
                 \* last reconciliation began
    syncOk,      \* history: the last reconciliation returned without error
    lastBy,      \* history: who assigned Player.playlist last
    finished,    \* history: the head the last reconciliation found gone
    plPc,        \* position of the caller of Playlist()
    \* ---- the order of the playlist lock and the pooled connections
    oSteps,      \* per thread: the lock and withMpd steps it has still to do
    oHeld,       \* per thread: the withMpd callbacks it is inside
    oLock,       \* Player.playlistLock: its holder, or NoThread
    oFree,       \* the clients in Player.clientPool
    \* ---- the watcher, the emitter and the catalogue updates
    evPc,        \* position of eventLoop
    wEvent,      \* watcher.Event: notifications not yet received from it
    wError,      \* watcher.Error holds an error
    dUpdating,   \* the daemon's status has the attribute updating_db
    subs,        \* the emitter's listener channels, by subscriber
    lpPc,        \* position of mainLoop
    lpStatus,    \* mainLoop: what the status query of "mpd-update" gave
    hSent,       \* history: notifications of the current subscription
    hEmitted,    \* history: what eventLoop emitted in the current subscription
    evSlept,     \* history: eventLoop has slept since the last NewWatcher
    evAttempts,  \* history: calls of NewWatcher
    openWatchers, \* watchers made by NewWatcher and not closed
    dNotifs,     \* history: notifications the daemon has sent
    dropped,     \* history: subscribers an event was dropped for
    hErr,        \* history: a connection or a command has failed
    hUpd,        \* history: "none", or the update is "started" or "done"
    hConnected,  \* history: the watcher was subscribed when the update began
    hTracks,     \* history: the subscriber received "tracks" after the update began
    \* ---- PlaylistMetaKeeper (keeper_test.go)
    kTracks,     \* the tracks of the keeper's playlist, each a track number
    kMeta,       \* the keeper's metadata, what Meta() returns
    kPc,         \* "idle", or "call": InsertWithMeta has been called
    kPos,        \* InsertWithMeta's argument pos
    kArgT,       \* InsertWithMeta's argument tracks
    kArgM,       \* InsertWithMeta's argument meta
    kErr,        \* the last InsertWithMeta returned an error
    kBy          \* history: by track number, the QueuedBy supplied with it

poolVars == <<clientPool, rcClient, rcConn, rcLock, rcReset, supPc, wPc, wRc,
              wErr>>
cacheVars == <<cTracks, cIndex, cErr, rwReaders, rwW, cPc, cOp, cArg, rNew, rI, cListener, cOut, dbTracks, cLoads, cClean,
               cSent, cVer, rVer>>

filterVars == <<fTracks, numCPU, fNext, tsClosed, wkPc, wkItem, wg, msClosed,
                results, fPc, ranked>>

syncVars == <<queue, song, mpdState, stickers, pendingNotif, playlist, lastTrack,
              playlistLock, listener, mlPc, mlSong, mlSeek, spPc, spPlist, spDel, spLen, spErr,
              changes, stale, syncOk, lastBy, finished>>
\* The callers of the player's read operations.
apiVars == <<plPc>>
orderVars == <<oSteps, oHeld, oLock, oFree>>
watchVars == <<evPc, wEvent, wError, dUpdating, subs, lpPc, lpStatus, hSent,
               hEmitted, evSlept, evAttempts, dNotifs, dropped, hErr, hUpd,
               hConnected, hTracks, openWatchers>>
keeperVars == <<kTracks, kMeta, kPc, kPos, kArgT, kArgM, kErr, kBy>>
vars == <<poolVars, cacheVars, filterVars, syncVars, apiVars, orderVars,
          watchVars, keeperVars>>

\* What the actions of one component leave alone.
notPool == <<cacheVars, filterVars, syncVars, apiVars,
    orderVars, watchVars, keeperVars>>
notCache == <<poolVars, filterVars, syncVars, apiVars,
    orderVars, watchVars, keeperVars>>
notFilter == <<poolVars, cacheVars, syncVars, apiVars,
    orderVars, watchVars, keeperVars>>
notSync == <<poolVars, cacheVars, filterVars, apiVars,
    orderVars, watchVars, keeperVars>>
notPlayer == <<poolVars, cacheVars, filterVars, orderVars,
    watchVars, keeperVars>>
notOrder == <<poolVars, cacheVars, filterVars, syncVars,
    apiVars, watchVars, keeperVars>>
notKeeper == <<poolVars, cacheVars, filterVars, syncVars, apiVars, orderVars,
    watchVars>>
notWatch == <<poolVars, cacheVars, filterVars, syncVars,
    apiVars, orderVars, keeperVars>>

Callers == 1 .. NumCallers
Rcs == 1 .. NumRc
\* The lock holder id of an object's own supervisor goroutine.
SupId == NumCallers + 1

Range(s) == {s[i] : i \in DOMAIN s}

(***************************************************************************)
(* Connection pool.                                                        *)
(***************************************************************************)

\* An object nothing refers to any more: its supervisor has returned, it is
\* neither in the pool nor in a caller's hands.  Its id may be used again for
\* a new object (garbage collection).
RcUnused(r) ==
    /\ supPc[r] = "done"
    /\ r \notin Range(clientPool)
    /\ \A c \in Callers : wRc[c] # r

\* The id a new object gets: the least one not in use (0: none is left).  The
\* caller's old object is still referred to by its local while it dials.
NewRc(old) ==
    LET free == {r \in Rcs : RcUnused(r) /\ r # old}
    IN  IF free = {} THEN 0 ELSE CHOOSE r \in free : \A q \in free : r <= q

\* Connect: capacity-many clients are dialled and put in the pool, each with
\* its supervisor started.
PoolInit ==
    /\ clientPool = [i \in 1 .. PoolCap |-> i]
    /\ rcClient = [r \in Rcs |-> IF r <= PoolCap THEN "set" ELSE "nil"]
    /\ rcConn = [r \in Rcs |-> IF r <= PoolCap THEN "open" ELSE "closed"]
    /\ rcLock = [r \in Rcs |-> 0]
    /\ rcReset = [r \in Rcs |-> IF r <= PoolCap THEN "open" ELSE "closed"]
    /\ supPc = [r \in Rcs |-> IF r <= PoolCap THEN "select" ELSE "done"]
    /\ wPc = [c \in Callers |-> "idle"]
    /\ wRc = [c \in Callers |-> 0]
    /\ wErr = [c \in Callers |-> ""]

\* run(): case <-pinger.C is chosen; the goroutine goes on to rc.Lock().
SupTick(r) ==
    /\ supPc[r] = "select"
    /\ supPc' = [supPc EXCEPT ![r] = "pingLock"]
    /\ UNCHANGED <<clientPool, rcClient, rcConn, rcLock, rcReset, wPc, wRc>>
    /\ UNCHANGED wErr
    /\ UNCHANGED notPool

\* A mutant of SupPingLock: the ping does not take the lock.
SupPingUnlocked(r) ==
    /\ supPc[r] = "pingLock"
    /\ supPc' = [supPc EXCEPT ![r] = "pinging"]
    /\ UNCHANGED <<clientPool, rcClient, rcConn, rcLock, rcReset, wPc, wRc>>
    /\ UNCHANGED wErr
    /\ UNCHANGED notPool

\* run(): rc.Lock() of the ping case.
SupPingLock(r) ==
    /\ supPc[r] = "pingLock"
    /\ rcLock[r] = 0
    /\ rcLock' = [rcLock EXCEPT ![r] = SupId]
    /\ supPc' = [supPc EXCEPT ![r] = "pinging"]
    /\ UNCHANGED <<clientPool, rcClient, rcConn, rcReset, wPc, wRc>>
    /\ UNCHANGED wErr
    /\ UNCHANGED notPool

\* run(): rc.client.Ping() and what follows: on an error the connection is
\* closed, client set to nil, the lock released and run returns; otherwise
\* the lock is released and the loop goes round.
SupPing(r) ==
    /\ supPc[r] = "pinging"
    /\ \E ok \in BOOLEAN :
          IF ok
          THEN /\ supPc' = [supPc EXCEPT ![r] = "select"]
               /\ UNCHANGED <<rcClient, rcConn>>
          ELSE /\ rcConn' = [rcConn EXCEPT ![r] = "closed"]
               /\ rcClient' = [rcClient EXCEPT ![r] = "nil"]
               /\ supPc' = [supPc EXCEPT ![r] = "exit"]
    /\ rcLock' = [rcLock EXCEPT ![r] = 0]
    /\ UNCHANGED <<clientPool, rcReset, wPc, wRc>>
    /\ UNCHANGED wErr
    /\ UNCHANGED notPool

\* run(): case <-expire is chosen; the goroutine goes on to rc.Lock().
SupExpireFire(r) ==
    /\ supPc[r] = "select"
    /\ supPc' = [supPc EXCEPT ![r] = "expireLock"]
    /\ UNCHANGED <<clientPool, rcClient, rcConn, rcLock, rcReset, wPc, wRc>>
    /\ UNCHANGED wErr
    /\ UNCHANGED notPool

\* run(): rc.Lock() of the expire case.
SupExpireLock(r) ==
    /\ supPc[r] = "expireLock"
    /\ rcLock[r] = 0
    /\ rcLock' = [rcLock EXCEPT ![r] = SupId]
    /\ supPc' = [supPc EXCEPT ![r] = "expiring"]
    /\ UNCHANGED <<clientPool, rcClient, rcConn, rcReset, wPc, wRc>>
    /\ UNCHANGED wErr
    /\ UNCHANGED notPool

\* A mutant of SupExpire: the client is forgotten, its connection left open.
SupExpireNoClose(r) ==
    /\ supPc[r] = "expiring"
    /\ rcClient' = [rcClient EXCEPT ![r] = "nil"]
    /\ rcLock' = [rcLock EXCEPT ![r] = 0]
    /\ supPc' = [supPc EXCEPT ![r] = "exit"]
    /\ UNCHANGED <<clientPool, rcConn, rcReset, wPc, wRc>>
    /\ UNCHANGED wErr
    /\ UNCHANGED notPool

\* run(): rc.client.Close(); rc.client = nil; rc.Unlock(); return.
SupExpire(r) ==
    /\ supPc[r] = "expiring"
    /\ rcConn' = [rcConn EXCEPT ![r] = "closed"]
    /\ rcClient' = [rcClient EXCEPT ![r] = "nil"]
    /\ rcLock' = [rcLock EXCEPT ![r] = 0]
    /\ supPc' = [supPc EXCEPT ![r] = "exit"]
    /\ UNCHANGED <<clientPool, rcReset, wPc, wRc>>
    /\ UNCHANGED wErr
    /\ UNCHANGED notPool

\* run() returns: the deferred close(rc.reset).
SupClose(r) ==
    /\ supPc[r] = "exit"
    /\ rcReset' = [rcReset EXCEPT ![r] = "closed"]
    /\ supPc' = [supPc EXCEPT ![r] = "done"]
    /\ UNCHANGED <<clientPool, rcClient, rcConn, rcLock, wPc, wRc>>
    /\ UNCHANGED wErr
    /\ UNCHANGED notPool

\* withMpd: reClient := <-pl.clientPool (blocks while the pool is empty).
WithMpdAcquire(c) ==
    /\ wPc[c] = "idle"
    /\ clientPool # <<>>
    /\ wRc' = [wRc EXCEPT ![c] = Head(clientPool)]
    /\ clientPool' = Tail(clientPool)
    /\ wPc' = [wPc EXCEPT ![c] = "lock"]
    /\ UNCHANGED <<rcClient, rcConn, rcLock, rcReset, supPc>>
    /\ UNCHANGED wErr
    /\ UNCHANGED notPool

\* withMpd: reClient.Lock().
WithMpdLock(c) ==
    /\ wPc[c] = "lock"
    /\ rcLock[wRc[c]] = 0
    /\ rcLock' = [rcLock EXCEPT ![wRc[c]] = c]
    /\ wPc' = [wPc EXCEPT ![c] = "check"]
    /\ UNCHANGED <<clientPool, rcClient, rcConn, rcReset, supPc, wRc>>
    /\ UNCHANGED wErr
    /\ UNCHANGED notPool

\* withMpd: if reClient.client == nil { reClient.Unlock(); ... newClient }.
\* Otherwise the deferred release is registered and the reset is sent next.
WithMpdCheck(c) ==
    /\ wPc[c] = "check"
    /\ IF rcClient[wRc[c]] = "nil"
       THEN /\ rcLock' = [rcLock EXCEPT ![wRc[c]] = 0]
            /\ wPc' = [wPc EXCEPT ![c] = "dial"]
       ELSE /\ wPc' = [wPc EXCEPT ![c] = "reset"]
            /\ UNCHANGED rcLock
    /\ UNCHANGED <<clientPool, rcClient, rcConn, rcReset, supPc, wRc>>
    /\ UNCHANGED wErr
    /\ UNCHANGED notPool

\* newClient: mpd.DialAuthenticated, the new reusableClient and go rc.run.
\* On a dial error withMpd returns it: reClient is not put back.
WithMpdDial(c) ==
    /\ wPc[c] = "dial"
    /\ \/ \E r \in Rcs :
             /\ r = NewRc(wRc[c])
             /\ rcClient' = [rcClient EXCEPT ![r] = "set"]
             /\ rcConn' = [rcConn EXCEPT ![r] = "open"]
             /\ rcReset' = [rcReset EXCEPT ![r] = "open"]
             /\ supPc' = [supPc EXCEPT ![r] = "select"]
             /\ wRc' = [wRc EXCEPT ![c] = r]
             /\ wPc' = [wPc EXCEPT ![c] = "relock"]
             /\ UNCHANGED wErr
       \/ /\ wRc' = [wRc EXCEPT ![c] = 0]
          /\ wPc' = [wPc EXCEPT ![c] = "idle"]
          /\ wErr' = [wErr EXCEPT ![c] = "dial"]
          /\ UNCHANGED <<rcClient, rcConn, rcReset, supPc>>
    /\ UNCHANGED <<clientPool, rcLock>>
    /\ UNCHANGED notPool

\* withMpd: reClient.Lock() on the replacement (the client is not checked
\* again).
WithMpdRelock(c) ==
    /\ wPc[c] = "relock"
    /\ rcLock[wRc[c]] = 0
    /\ rcLock' = [rcLock EXCEPT ![wRc[c]] = c]
    /\ wPc' = [wPc EXCEPT ![c] = "reset"]
    /\ UNCHANGED <<clientPool, rcClient, rcConn, rcReset, supPc, wRc>>
    /\ UNCHANGED wErr
    /\ UNCHANGED notPool

\* withMpd: reClient.reset <- struct{}{}.  The channel is unbuffered: the
\* send completes when run() is in its select and takes the reset case
\* (expire = time.After(expireAfter)).  A send on a closed channel panics;
\* the deferred function still unlocks and puts reClient back.
WithMpdReset(c) ==
    /\ wPc[c] = "reset"
    /\ IF rcReset[wRc[c]] = "closed"
       THEN /\ rcLock' = [rcLock EXCEPT ![wRc[c]] = 0]
            /\ clientPool' = Append(clientPool, wRc[c])
            /\ wRc' = [wRc EXCEPT ![c] = 0]
            /\ wPc' = [wPc EXCEPT ![c] = "panic"]
       ELSE /\ supPc[wRc[c]] = "select"
            /\ wPc' = [wPc EXCEPT ![c] = "fn"]
            /\ UNCHANGED <<clientPool, rcLock, wRc>>
    /\ UNCHANGED <<rcClient, rcConn, rcReset, supPc>>
    /\ UNCHANGED wErr
    /\ UNCHANGED notPool

\* What a callback returns: nil or an error.
FnResults == {"nil", "err"}

\* A mutant of WithMpdReturn: reClient is put back only when the callback
\* returned nil.
WithMpdReturnDropsOnError(c) ==
    /\ wPc[c] = "fn"
    /\ \E res \in FnResults :
          /\ wErr' = [wErr EXCEPT ![c] = res]
          /\ clientPool' = IF res = "nil" THEN Append(clientPool, wRc[c])
                           ELSE clientPool
    /\ rcLock' = [rcLock EXCEPT ![wRc[c]] = 0]
    /\ wRc' = [wRc EXCEPT ![c] = 0]
    /\ wPc' = [wPc EXCEPT ![c] = "idle"]
    /\ UNCHANGED <<rcClient, rcConn, rcReset, supPc>>
    /\ UNCHANGED notPool

\* withMpd: return fn(reClient.client), whatever fn returns, then the
\* deferred reClient.Unlock(); pl.clientPool <- reClient.
WithMpdReturn(c) ==
    /\ wPc[c] = "fn"
    /\ \E res \in FnResults : wErr' = [wErr EXCEPT ![c] = res]
    /\ rcLock' = [rcLock EXCEPT ![wRc[c]] = 0]
    /\ clientPool' = Append(clientPool, wRc[c])
    /\ wRc' = [wRc EXCEPT ![c] = 0]
    /\ wPc' = [wPc EXCEPT ![c] = "idle"]
    /\ UNCHANGED <<rcClient, rcConn, rcReset, supPc>>
    /\ UNCHANGED notPool

PoolNext ==
    \/ \E r \in Rcs : SupTick(r)
    \/ \E r \in Rcs : SupPingLock(r)
    \/ \E r \in Rcs : SupPing(r)
    \/ \E r \in Rcs : SupExpireFire(r)
    \/ \E r \in Rcs : SupExpireLock(r)
    \/ \E r \in Rcs : SupExpire(r)
    \/ \E r \in Rcs : SupClose(r)
    \/ \E c \in Callers : WithMpdAcquire(c)
    \/ \E c \in Callers : WithMpdLock(c)
    \/ \E c \in Callers : WithMpdCheck(c)
    \/ \E c \in Callers : WithMpdDial(c)
    \/ \E c \in Callers : WithMpdRelock(c)
    \/ \E c \in Callers : WithMpdReset(c)
    \/ \E c \in Callers : WithMpdReturn(c)

(***************************************************************************)
(* Track cache.                                                            *)
(***************************************************************************)
Uris == {"x", "y"}
\* The catalogues of the daemon: lists of tracks, a track being its Uri.
\* (ListAllInfo names every file of the database once.)
Catalogues ==
    {cat \in UNION {[1 .. n -> Uris] : n \in 0 .. MaxCat} :
        \A i, j \in DOMAIN cat : cat[i] = cat[j] => i = j}
\* The goroutine of TrackCache.Run.
RunId == NumCallers + 1
CacheProcs == Callers \cup {RunId}

\* The number of "tracks" events in a sequence of events.
NumTracksEvents(sq) == Cardinality({i \in DOMAIN sq : sq[i] = "tracks"})

CacheInit ==
    /\ cTracks = <<>>
    /\ cIndex = <<>>
    /\ cErr = ""
    /\ rwReaders = {}
    /\ rwW = 0
    /\ cPc = [p \in CacheProcs |-> "idle"]
    /\ cOp = [p \in CacheProcs |-> IF p = RunId THEN "Run" ELSE ""]
    /\ cArg = [p \in CacheProcs |-> ""]
    /\ rNew = [p \in CacheProcs |-> <<>>]
    /\ rI = [p \in CacheProcs |-> 0]
    /\ cListener = <<>>
    /\ cSent = <<>>
    /\ cVer = 0
    /\ rVer = [p \in CacheProcs |-> 0]
    /\ cOut = <<>>
    /\ dbTracks \in Catalogues
    /\ cLoads = 0
    /\ cClean = TRUE

\* A caller enters TrackCache.Tracks().
CallTracks(p) ==
    /\ cPc[p] = "idle"
    /\ cOp' = [cOp EXCEPT ![p] = "Tracks"]
    /\ cArg' = [cArg EXCEPT ![p] = ""]
    /\ cPc' = [cPc EXCEPT ![p] = "rlock"]
    /\ UNCHANGED <<cTracks, cVer, cIndex, cErr, rwReaders, rwW, rNew, rVer, rI, cListener, cSent,
                   cOut, dbTracks, cLoads, cClean>>
    /\ UNCHANGED notCache

\* A caller enters TrackCache.TrackInfo(uri).
CallTrackInfo(p, u) ==
    /\ cPc[p] = "idle"
    /\ cOp' = [cOp EXCEPT ![p] = "TrackInfo"]
    /\ cArg' = [cArg EXCEPT ![p] = u]
    /\ cPc' = [cPc EXCEPT ![p] = "rlock"]
    /\ UNCHANGED <<cTracks, cVer, cIndex, cErr, rwReaders, rwW, rNew, rVer, rI, cListener, cSent,
                   cOut, dbTracks, cLoads, cClean>>
    /\ UNCHANGED notCache

\* cache.lock.RLock(): at the start of a method ("rlock") and again after a
\* reload ("rlock2").  It waits while a goroutine is in Lock() or holds the
\* lock exclusively.
CacheRLock(p) ==
    /\ cPc[p] \in {"rlock", "rlock2"}
    /\ rwW = 0
    /\ rwReaders' = rwReaders \cup {p}
    /\ cPc' = [cPc EXCEPT ![p] = IF cPc[p] = "rlock" THEN "check" ELSE "use"]
    /\ UNCHANGED <<cTracks, cVer, cIndex, cErr, rwW, cOp, cArg, rNew, rVer, rI,
                   cListener, cSent, cOut, dbTracks, cLoads, cClean>>
    /\ UNCHANGED notCache

\* Tracks(): if cache.tracks == nil { cache.lock.RUnlock(); ... }.
\* TrackInfo(): if cache.err != nil { return nil, cache.err } comes first.
CacheCheck(p) ==
    /\ cPc[p] = "check"
    /\ IF cOp[p] = "TrackInfo" /\ cErr # ""
       THEN /\ rwReaders' = rwReaders \ {p}
            /\ cPc' = [cPc EXCEPT ![p] = "idle"]
            /\ cOp' = [cOp EXCEPT ![p] = ""]
            /\ cArg' = [cArg EXCEPT ![p] = ""]
       ELSE IF cTracks = <<>>
       THEN /\ rwReaders' = rwReaders \ {p}
            /\ cPc' = [cPc EXCEPT ![p] = "wlock"]
            /\ UNCHANGED <<cOp, cArg>>
       ELSE /\ cPc' = [cPc EXCEPT ![p] = "use"]
            /\ UNCHANGED <<rwReaders, cOp, cArg>>
    /\ UNCHANGED <<cTracks, cVer, cIndex, cErr, rwW, rNew, rVer, rI, cListener, cSent,
                   cOut, dbTracks, cLoads, cClean>>
    /\ UNCHANGED notCache

\* cache.lock.Lock(), first half: the writer announces itself; from now on
\* RLock() waits.
CacheLockBegin(p) ==
    /\ cPc[p] = "wlock"
    /\ rwW = 0
    /\ rwW' = p
    /\ cPc' = [cPc EXCEPT ![p] = "wwait"]
    /\ UNCHANGED <<cTracks, cVer, cIndex, cErr, rwReaders, cOp, cArg, rNew, rVer, rI,
                   cListener, cSent, cOut, dbTracks, cLoads, cClean>>
    /\ UNCHANGED notCache

\* cache.lock.Lock(), second half: the readers have left.
CacheLockAcquire(p) ==
    /\ cPc[p] = "wwait"
    /\ rwReaders = {}
    /\ cPc' = [cPc EXCEPT ![p] = "reload"]
    /\ UNCHANGED <<cTracks, cVer, cIndex, cErr, rwReaders, rwW, cOp, cArg, rNew, rVer, rI, cListener, cSent, cOut, dbTracks, cLoads, cClean>>
    /\ UNCHANGED notCache

\* reloadTracks: tracks, err := cache.Player.Tracks(); on an error
\* cache.err = err.  (cache.err is not written on success.)
ReloadCall(p) ==
    /\ cPc[p] = "reload"
    /\ cLoads < MaxLoads
    /\ cLoads' = cLoads + 1
    /\ \E ok \in BOOLEAN :
          /\ rNew' = [rNew EXCEPT ![p] = IF ok THEN <<dbTracks>> ELSE <<>>]
          /\ rVer' = [rVer EXCEPT ![p] = IF ok THEN NumTracksEvents(cSent) ELSE 0]
          /\ cErr' = IF ok THEN cErr ELSE "err"
          /\ cClean' = (cClean /\ ok /\ cOp[p] = "Tracks")
    /\ cPc' = [cPc EXCEPT ![p] = "wtracks"]
    /\ UNCHANGED <<cTracks, cVer, cIndex, rwReaders, rwW, cOp, cArg, rI,
                   cListener, cSent, cOut, dbTracks>>
    /\ UNCHANGED notCache

\* reloadTracks: the write of cache.tracks (nil after an error).
ReloadWriteTracks(p) ==
    /\ cPc[p] = "wtracks"
    /\ cTracks' = rNew[p]
    /\ cVer' = rVer[p]
    /\ cPc' = [cPc EXCEPT ![p] = "windex"]
    /\ UNCHANGED <<cIndex, cErr, rwReaders, rwW, cOp, cArg, rNew, rVer, rI,
                   cListener, cSent, cOut, dbTracks, cLoads, cClean>>
    /\ UNCHANGED notCache

\* A mutant of ReloadWriteIndex: after an error only cache.tracks is cleared.
ReloadWriteIndexKeepsOld(p) ==
    /\ cPc[p] = "windex"
    /\ IF rNew[p] = <<>>
       THEN /\ UNCHANGED cIndex
            /\ cPc' = [cPc EXCEPT ![p] = "unlock"]
       ELSE /\ cIndex' = << <<>> >>
            /\ cPc' = [cPc EXCEPT ![p] = "fill"]
    /\ rI' = [rI EXCEPT ![p] = 1]
    /\ UNCHANGED <<cTracks, cVer, cErr, rwReaders, rwW, cOp, cArg, rNew, rVer,
                   cListener, cSent, cOut, dbTracks, cLoads, cClean>>
    /\ UNCHANGED notCache

\* reloadTracks: the write of cache.index: nil after an error (and return),
\* else an empty map, filled by the loop.
ReloadWriteIndex(p) ==
    /\ cPc[p] = "windex"
    /\ IF rNew[p] = <<>>
       THEN /\ cIndex' = <<>>
            /\ cPc' = [cPc EXCEPT ![p] = "unlock"]
       ELSE /\ cIndex' = << <<>> >>
            /\ cPc' = [cPc EXCEPT ![p] = "fill"]
    /\ rI' = [rI EXCEPT ![p] = 1]
    /\ UNCHANGED <<cTracks, cVer, cErr, rwReaders, rwW, cOp, cArg, rNew, rVer,
                   cListener, cSent, cOut, dbTracks, cLoads, cClean>>
    /\ UNCHANGED notCache

\* The map m with m[k] = v.
MapPut(m, k, v) == [x \in DOMAIN m \cup {k} |-> IF x = k THEN v ELSE m[x]]

\* reloadTracks: one round of
\*   for i, track := range cache.tracks { cache.index[track.Uri] = &cache.tracks[i] }
\* or the end of the loop.
ReloadFill(p) ==
    /\ cPc[p] = "fill"
    /\ IF rI[p] <= Len(cTracks[1])
       THEN /\ cIndex' = << MapPut(cIndex[1], cTracks[1][rI[p]], rI[p]) >>
            /\ rI' = [rI EXCEPT ![p] = rI[p] + 1]
            /\ UNCHANGED cPc
       ELSE /\ cPc' = [cPc EXCEPT ![p] = "unlock"]
            /\ UNCHANGED <<cIndex, rI>>
    /\ UNCHANGED <<cTracks, cVer, cErr, rwReaders, rwW, cOp, cArg, rNew, rVer,
                   cListener, cSent, cOut, dbTracks, cLoads, cClean>>
    /\ UNCHANGED notCache

\* cache.lock.Unlock() after reloadTracks; Tracks() and TrackInfo() go on to
\* RLock() again, Run to cache.Emit(event).
CacheUnlock(p) ==
    /\ cPc[p] = "unlock"
    /\ rwW' = 0
    /\ cPc' = [cPc EXCEPT ![p] = IF p = RunId THEN "emit" ELSE "rlock2"]
    /\ rNew' = [rNew EXCEPT ![p] = <<>>]
    /\ rVer' = [rVer EXCEPT ![p] = 0]
    /\ rI' = [rI EXCEPT ![p] = 0]
    /\ UNCHANGED <<cTracks, cVer, cIndex, cErr, rwReaders, cOp, cArg,
                   cListener, cSent, cOut, dbTracks, cLoads, cClean>>
    /\ UNCHANGED notCache

\* What TrackInfo(u) returns at its lookup: the element the index points at,
\* or what cache.Player.TrackInfo(uri) gives, which may be an error.
TrackInfoResults(u) ==
    IF cIndex # <<>> /\ u \in DOMAIN cIndex[1]
    THEN { <<"ok", <<cTracks[1][cIndex[1][u]]>> >> }
    ELSE { <<"ok", <<u>> >>, <<"err">> }

\* What Tracks() returns at its end:
\*   if cache.err != nil { return nil, cache.err }; return cache.tracks, nil
TracksResult == IF cErr # "" THEN <<"err">> ELSE <<"ok", cTracks>>

\* The end of Tracks() and of TrackInfo(): the result above is returned and
\* the deferred RUnlock() runs.
CacheUse(p) ==
    /\ cPc[p] = "use"
    /\ rwReaders' = rwReaders \ {p}
    /\ cPc' = [cPc EXCEPT ![p] = "idle"]
    /\ cOp' = [cOp EXCEPT ![p] = ""]
    /\ cArg' = [cArg EXCEPT ![p] = ""]
    /\ UNCHANGED <<cTracks, cVer, cIndex, cErr, rwW, rNew, rVer, rI, cListener, cSent,
                   cOut, dbTracks, cLoads, cClean>>
    /\ UNCHANGED notCache

\* A Run that emits "tracks" again like any other event, without a reload.
RunRecvNoReload ==
    /\ cPc[RunId] = "idle"
    /\ cListener # <<>>
    /\ cListener' = Tail(cListener)
    /\ UNCHANGED cSent
    /\ cOut' = Append(cOut, Head(cListener))
    /\ UNCHANGED cPc
    /\ UNCHANGED <<cTracks, cVer, cIndex, cErr, rwReaders, rwW, cOp, cArg, rNew, rVer, rI, dbTracks, cLoads, cClean>>
    /\ UNCHANGED notCache

\* Run: for event := range listener: an event other than "tracks" is emitted
\* again at once; for "tracks" the cache is reloaded first.
RunRecv ==
    /\ cPc[RunId] = "idle"
    /\ cListener # <<>>
    /\ cListener' = Tail(cListener)
    /\ UNCHANGED cSent
    /\ IF Head(cListener) # "tracks"
       THEN /\ cOut' = Append(cOut, Head(cListener))
            /\ UNCHANGED cPc
       ELSE /\ cPc' = [cPc EXCEPT ![RunId] = "wlock"]
            /\ UNCHANGED cOut
    /\ UNCHANGED <<cTracks, cVer, cIndex, cErr, rwReaders, rwW, cOp, cArg, rNew, rVer, rI, dbTracks, cLoads, cClean>>
    /\ UNCHANGED notCache

\* Run: cache.Emit(event) after the reload.
RunEmit ==
    /\ cPc[RunId] = "emit"
    /\ cOut' = Append(cOut, "tracks")
    /\ cPc' = [cPc EXCEPT ![RunId] = "idle"]
    /\ UNCHANGED <<cTracks, cVer, cIndex, cErr, rwReaders, rwW, cOp, cArg, rNew, rVer, rI, cListener, cSent, dbTracks, cLoads, cClean>>
    /\ UNCHANGED notCache

\* The daemon's catalogue changes and the player emits "tracks".
DbUpdate ==
    /\ Len(cListener) + Len(cOut) < MaxCacheEvents
    /\ \E cat \in Catalogues : cat # dbTracks /\ dbTracks' = cat
    /\ cListener' = Append(cListener, "tracks")
    /\ cSent' = Append(cSent, "tracks")
    /\ UNCHANGED <<cTracks, cVer, cIndex, cErr, rwReaders, rwW, cPc, cOp, cArg, rNew, rVer,
                   rI, cOut, cLoads, cClean>>
    /\ UNCHANGED notCache

\* The player emits another event.
PlayerEvent ==
    /\ Len(cListener) + Len(cOut) < MaxCacheEvents
    /\ cListener' = Append(cListener, "playlist")
    /\ cSent' = Append(cSent, "playlist")
    /\ UNCHANGED <<cTracks, cVer, cIndex, cErr, rwReaders, rwW, cPc, cOp, cArg, rNew, rVer,
                   rI, cOut, dbTracks, cLoads, cClean>>
    /\ UNCHANGED notCache

CacheNext ==
    \/ \E p \in Callers : CallTracks(p)
    \/ \E p \in Callers : \E u \in Uris : CallTrackInfo(p, u)
    \/ \E p \in Callers : CacheRLock(p)
    \/ \E p \in Callers : CacheCheck(p)
    \/ \E p \in CacheProcs : CacheLockBegin(p)
    \/ \E p \in CacheProcs : CacheLockAcquire(p)
    \/ \E p \in CacheProcs : ReloadCall(p)
    \/ \E p \in CacheProcs : ReloadWriteTracks(p)
    \/ \E p \in CacheProcs : ReloadWriteIndex(p)
    \/ \E p \in CacheProcs : ReloadFill(p)
    \/ \E p \in CacheProcs : CacheUnlock(p)
    \/ \E p \in Callers : CacheUse(p)
    \/ RunRecv
    \/ RunEmit
    \/ DbUpdate
    \/ PlayerEvent

(***************************************************************************)
(* filter.Tracks.                                                          *)
(***************************************************************************)
Workers == 1 .. MaxCPU

\* What a deterministic filter says of a track: whether it keeps it, and
\* how many matches the SearchResult records.  A track is named by its place
\* in the catalogue (its Uri is unique).
TrackVerdicts == [kept : BOOLEAN, nm : 1 .. MaxMatches]

\* filter.Filter(track): the SearchResult and ok.
FilterResult(i) == [uri |-> i, nm |-> fTracks[i].nm]
FilterOk(i) == fTracks[i].kept

\* SearchResult.NumMatches.
NumMatches(sr) == sr.nm

\* ByNumMatches.Less on two results.
Less(a, b) == NumMatches(a) > NumMatches(b)

\* sort.Stable(ByNumMatches(l)), as an insertion sort: an element goes before
\* the first one it is Less than, so equal elements keep their order.
RECURSIVE InsertStable(_, _)
InsertStable(l, x) ==
    IF l = <<>> THEN <<x>>
    ELSE IF Less(x, l[Len(l)]) THEN Append(InsertStable(SubSeq(l, 1, Len(l) - 1), x), l[Len(l)])
    ELSE Append(l, x)

RECURSIVE StableSort(_)
StableSort(l) ==
    IF l = <<>> THEN <<>>
    ELSE InsertStable(StableSort(SubSeq(l, 1, Len(l) - 1)), l[Len(l)])

\* The state when Tracks has made its channels, started its goroutines and
\* reached its range over matchStream.
FilterInit ==
    /\ fTracks \in UNION {[1 .. n -> TrackVerdicts] : n \in 0 .. MaxTracks}
    /\ numCPU \in 1 .. MaxCPU
    /\ fNext = 1
    /\ tsClosed = FALSE
    /\ wkPc = [w \in Workers |-> IF w <= numCPU THEN "recv" ELSE "off"]
    /\ wkItem = [w \in Workers |-> 0]
    /\ wg = numCPU
    /\ msClosed = FALSE
    /\ results = <<>>
    /\ fPc = "collect"
    /\ ranked = <<>>

\* The producer's trackStream <- track meets a worker's range trackStream.
FeedWorker(w) ==
    /\ fNext <= Len(fTracks)
    /\ wkPc[w] = "recv"
    /\ wkItem' = [wkItem EXCEPT ![w] = fNext]
    /\ wkPc' = [wkPc EXCEPT ![w] = "filter"]
    /\ fNext' = fNext + 1
    /\ UNCHANGED <<fTracks, numCPU, tsClosed, wg, msClosed, results, fPc, ranked>>
    /\ UNCHANGED notFilter

\* The producer is through: the deferred close(trackStream).
CloseTrackStream ==
    /\ fNext = Len(fTracks) + 1
    /\ ~tsClosed
    /\ tsClosed' = TRUE
    /\ UNCHANGED <<fTracks, numCPU, fNext, wkPc, wkItem, wg, msClosed, results,
                   fPc, ranked>>
    /\ UNCHANGED notFilter

\* Worker: if res, ok := filter.Filter(track); ok { ... }.
WorkerFilter(w) ==
    /\ wkPc[w] = "filter"
    /\ IF FilterOk(wkItem[w])
       THEN /\ wkPc' = [wkPc EXCEPT ![w] = "send"]
            /\ UNCHANGED wkItem
       ELSE /\ wkPc' = [wkPc EXCEPT ![w] = "recv"]
            /\ wkItem' = [wkItem EXCEPT ![w] = 0]
    /\ UNCHANGED <<fTracks, numCPU, fNext, tsClosed, wg, msClosed, results,
                   fPc, ranked>>
    /\ UNCHANGED notFilter

\* Worker: matchStream <- res meets the caller's range matchStream, whose
\* body appends the match.  A send on the closed matchStream panics.
WorkerSend(w) ==
    /\ wkPc[w] = "send"
    /\ IF msClosed
       THEN /\ wkPc' = [wkPc EXCEPT ![w] = "panic"]
            /\ UNCHANGED <<results, wkItem>>
       ELSE /\ fPc = "collect"
            /\ results' = Append(results, FilterResult(wkItem[w]))
            /\ wkPc' = [wkPc EXCEPT ![w] = "recv"]
            /\ wkItem' = [wkItem EXCEPT ![w] = 0]
    /\ UNCHANGED <<fTracks, numCPU, fNext, tsClosed, wg, msClosed, fPc, ranked>>
    /\ UNCHANGED notFilter

\* A mutant of WorkerDone: the worker leaves without wg.Done().
WorkerDoneNoSignal(w) ==
    /\ wkPc[w] = "recv"
    /\ tsClosed
    /\ wkPc' = [wkPc EXCEPT ![w] = "done"]
    /\ UNCHANGED <<fTracks, numCPU, fNext, tsClosed, wkItem, wg, msClosed, results,
                   fPc, ranked>>
    /\ UNCHANGED notFilter

\* Worker: the range over the closed trackStream ends; wg.Done().
WorkerDone(w) ==
    /\ wkPc[w] = "recv"
    /\ tsClosed
    /\ wkPc' = [wkPc EXCEPT ![w] = "done"]
    /\ wg' = wg - 1
    /\ UNCHANGED <<fTracks, numCPU, fNext, tsClosed, wkItem, msClosed, results,
                   fPc, ranked>>
    /\ UNCHANGED notFilter

\* A mutant of CloseMatchStream: it does not wait for every worker.
CloseMatchStreamEarly ==
    /\ wg < numCPU
    /\ ~msClosed
    /\ msClosed' = TRUE
    /\ UNCHANGED <<fTracks, numCPU, fNext, tsClosed, wkPc, wkItem, wg, results,
                   fPc, ranked>>
    /\ UNCHANGED notFilter

\* The join goroutine: wg.Wait() returns, the deferred close(matchStream).
CloseMatchStream ==
    /\ wg = 0
    /\ ~msClosed
    /\ msClosed' = TRUE
    /\ UNCHANGED <<fTracks, numCPU, fNext, tsClosed, wkPc, wkItem, wg, results,
                   fPc, ranked>>
    /\ UNCHANGED notFilter

\* The caller's range over the closed matchStream ends: return results.
TracksReturn ==
    /\ fPc = "collect"
    /\ msClosed
    /\ fPc' = "returned"
    /\ UNCHANGED <<fTracks, numCPU, fNext, tsClosed, wkPc, wkItem, wg, msClosed,
                   results, ranked>>
    /\ UNCHANGED notFilter

\* The search's ranking of what Tracks returned:
\* sort.Stable(ByNumMatches(results)).
RankResults ==
    /\ fPc = "returned"
    /\ ranked' = StableSort(results)
    /\ fPc' = "ranked"
    /\ UNCHANGED <<fTracks, numCPU, fNext, tsClosed, wkPc, wkItem, wg, msClosed,
                   results>>
    /\ UNCHANGED notFilter

FilterNext ==
    \/ \E w \in Workers : FeedWorker(w)
    \/ CloseTrackStream
    \/ \E w \in Workers : WorkerFilter(w)
    \/ \E w \in Workers : WorkerSend(w)
    \/ \E w \in Workers : WorkerDone(w)
    \/ CloseMatchStream
    \/ TracksReturn
    \/ RankResults

(***************************************************************************)
(* The Sync Loop (mpd.go:152-316), SetPlaylist (mpd.go:449-497) and the    *)
(* daemon they talk to.                                                    *)
(*                                                                         *)
(* A URI is a pair <<schema, rest>>: the string is the two parts joined.   *)
(* The daemon's "file" of a catalogue track has no schema; the URI the     *)
(* player gives it starts with URI_SCHEMA; a stream keeps its own schema   *)
(* on both sides.                                                          *)
(***************************************************************************)
URI_SCHEMA == "mpd://"

\* The empty string.
NoUri == <<"", "">>

\* Paths of the catalogue's files, and of the streams that can be queued.
CatFiles == {"a", "b", "c"}
Streams == {"s"}

\* What the daemon's queue can hold.
Songs == {<<"", f>> : f \in CatFiles} \cup {<<"http://", f>> : f \in Streams}

\* strings.TrimPrefix(uri, URI_SCHEMA)
uriToMpd(uri) == IF uri[1] = URI_SCHEMA THEN <<"", uri[2]>> ELSE uri

\* URI_SCHEMA + song when song holds no "://"
mpdToUri(s) == IF s[1] = "" THEN <<URI_SCHEMA, s[2]>> ELSE s

\* The Uris the local playlist can hold.
TrackUris == {mpdToUri(s) : s \in Songs}

\* PlaylistTrack.TrackUri()
TrackUri(t) == t.uri

\* The Uris of a playlist, in order.
PlaylistUris(pl) == [i \in DOMAIN pl |-> TrackUri(pl[i])]

\* The largest value of an int32: strconv.ParseInt(str, 10, 32) gives it
\* (and an error the callers drop) for a larger number.
MaxInt32 == 2147483647
ParseInt32(n) == IF n > MaxInt32 THEN MaxInt32 ELSE n

\* Emitter.Emit towards mainLoop's listener: the event is queued when the
\* channel has room and is given up for this listener when it has none.
Emit(l, e) == IF Len(l) < ListenerCap THEN Append(l, e) ELSE l

\* player.InterpolatePlaylistMeta: the tracks of ids in their order, each
\* with the annotations of the first old entry of its Uri, or the defaults.
DefaultMeta(u) == [uri |-> u, queuedBy |-> "system", progress |-> 0]
FirstOf(old, u) == CHOOSE i \in DOMAIN old :
                       /\ old[i].uri = u
                       /\ \A j \in 1 .. (i - 1) : old[j].uri # u
MetaFor(old, u) ==
    IF \E i \in DOMAIN old : old[i].uri = u THEN old[FirstOf(old, u)]
    ELSE DefaultMeta(u)
InterpolatePlaylistMeta(old, ids) == [i \in DOMAIN ids |-> MetaFor(old, ids[i])]

\* A comparison of the lengths alone.
playlistMatchesLength(songs, plist) == Len(plist) = Len(songs)

\* playlistMatchesServer, given the songs PlaylistInfo returned.
playlistMatchesServer(songs, plist) ==
    /\ Len(plist) = Len(songs)
    /\ \A i \in DOMAIN songs : mpdToUri(songs[i]) = plist[i].uri

\* loadPlaylist, given the songs PlaylistInfo returned.
loadPlaylist(songs) == [i \in DOMAIN songs |-> mpdToUri(songs[i])]

\* The daemon's Delete(start, end): the queue without positions start..end-1
\* (counted from 0).
DeleteRange(q, start, end) ==
    SubSeq(q, 1, start) \o SubSeq(q, end + 1, Len(q))

\* The play cursor after Delete(start, end).
SongAfterDelete(start, end) ==
    IF song >= end THEN song - (end - start)
    ELSE IF song >= start THEN 0
    ELSE song

\* Queues the daemon can hold when the player connects: the songs a, b, c
\* and the stream in this order, with any of them left out.
AllSongs == <<<<"", "a">>, <<"", "b">>, <<"", "c">>, <<"http://", "s">>>>
Pick(S) ==
    [i \in 1 .. Cardinality(S) |->
        AllSongs[CHOOSE k \in S : Cardinality({j \in S : j < k}) = i - 1]]
Queues == {Pick(S) : S \in {T \in SUBSET DOMAIN AllSongs : Cardinality(T) <= MaxQueue}}

SyncInit ==
    /\ queue \in Queues
    /\ song = 0
    /\ mpdState \in {"stop", "play"}
    /\ stickers = [f \in CatFiles |-> 0]
    /\ pendingNotif = {}
    /\ playlist = <<>>
    /\ lastTrack = NoUri
    /\ playlistLock = ""
    /\ listener = <<"mpd-playlist">>
    /\ mlPc = "recv"
    /\ mlSong = 0
    /\ mlSeek = 0
    /\ spPc = "idle"
    /\ spPlist = <<>>
    /\ spDel = 0
    /\ spLen = 0
    /\ spErr = ""
    /\ changes = 0
    /\ stale = FALSE
    /\ syncOk = FALSE
    /\ lastBy = ""
    /\ finished = NoUri
    /\ plPc = "idle"

daemonVars == <<queue, song, mpdState, stickers>>
spVars == <<spPc, spPlist, spDel, spLen, spErr>>
histVars == <<changes, stale, syncOk, lastBy, finished>>

\* ---- the daemon's other clients, its playback and the watcher

\* Another client of the daemon adds a song to the queue.
ExtAdd(s) ==
    /\ changes < MaxChanges
    /\ Len(queue) < MaxQueue
    /\ queue' = Append(queue, s)
    /\ pendingNotif' = pendingNotif \cup {"playlist"}
    /\ changes' = changes + 1
    /\ stale' = TRUE
    /\ UNCHANGED <<song, mpdState, stickers, playlist, lastTrack, playlistLock,
                   listener, mlPc, mlSong, mlSeek, spVars, syncOk, lastBy, finished>>
    /\ UNCHANGED notSync

\* The head of the queue is removed: by another client, or by the daemon
\* when it consumes the song it has played.
ExtDeleteHead ==
    /\ changes < MaxChanges
    /\ queue # <<>>
    /\ queue' = Tail(queue)
    /\ song' = SongAfterDelete(0, 1)
    /\ pendingNotif' = pendingNotif \cup {"playlist"}
    /\ changes' = changes + 1
    /\ stale' = TRUE
    /\ UNCHANGED <<mpdState, stickers, playlist, lastTrack, playlistLock,
                   listener, mlPc, mlSong, mlSeek, spVars, syncOk, lastBy, finished>>
    /\ UNCHANGED notSync

\* The daemon plays on to the next song of the queue, or stops after the
\* last one.
SongAdvance ==
    /\ changes < MaxChanges
    /\ mpdState = "play"
    /\ queue # <<>>
    /\ IF song + 1 < Len(queue)
       THEN song' = song + 1 /\ UNCHANGED mpdState
       ELSE song' = 0 /\ mpdState' = "stop"
    /\ pendingNotif' = pendingNotif \cup {"player"}
    /\ changes' = changes + 1
    /\ UNCHANGED <<queue, stickers, playlist, lastTrack, playlistLock,
                   listener, mlPc, mlSong, mlSeek, spVars, stale, syncOk, lastBy,
                   finished>>
    /\ UNCHANGED notSync

\* eventLoop (mpd.go:166-167): the watcher reports a changed subsystem and
\* the loop emits the event named after it.
WatcherEvent(e) ==
    /\ e \in pendingNotif
    /\ pendingNotif' = pendingNotif \ {e}
    /\ listener' = Emit(listener, IF e = "playlist" THEN "mpd-playlist"
                                  ELSE "mpd-player")
    /\ UNCHANGED <<daemonVars, playlist, lastTrack, playlistLock, mlPc, mlSong, mlSeek,
                   spVars, histVars>>
    /\ UNCHANGED notSync

\* ---- mainLoop (mpd.go:176-272)

\* mainLoop goes back to its receive, with the playlist unlocked.
MlRelease ==
    /\ mlPc' = "recv"
    /\ playlistLock' = ""
    /\ mlSong' = 0
    /\ mlSeek' = 0

\* An error return that leaves the playlist locked.
MlFailLocked ==
    /\ mlPc' = "failed"
    /\ playlistLock' = playlistLock
    /\ mlSong' = 0
    /\ mlSeek' = 0

\* The callback has returned an error: the playlist is unlocked
\* (mpd.go:218, 248) and mainLoop is about to log the error.
MlFail ==
    /\ mlPc' = "failed"
    /\ playlistLock' = ""
    /\ mlSong' = 0
    /\ mlSeek' = 0

\* switch event := <-listener (mpd.go:182-187, 223): "mpd-player" emits
\* "playstate" and "progress" and falls through to "mpd-playlist".
MlRecv ==
    /\ mlPc = "recv"
    /\ listener # <<>>
    /\ LET e == Head(listener) IN
        /\ listener' = IF e = "mpd-player"
                       THEN Emit(Emit(Tail(listener), "playstate"), "progress")
                       ELSE Tail(listener)
        /\ mlPc' = CASE e \in {"mpd-player", "mpd-playlist"} -> "lock"
                     [] e = "playlist" -> "plLock"
                     [] OTHER -> "recv"
    /\ UNCHANGED <<daemonVars, pendingNotif, playlist, lastTrack, playlistLock,
                   mlSong, mlSeek, spVars, histVars>>
    /\ UNCHANGED notSync

\* A reconciliation that does not wait for the playlist lock.
MlLockNoWait ==
    /\ mlPc = "lock"
    /\ playlistLock' = "main"
    /\ mlPc' = "match"
    /\ stale' = FALSE
    /\ syncOk' = FALSE
    /\ UNCHANGED <<daemonVars, pendingNotif, playlist, lastTrack, listener,
                   mlSong, mlSeek, spVars, changes, lastBy, finished>>
    /\ UNCHANGED notSync

\* case "mpd-playlist": pl.playlistLock.Lock() (mpd.go:189)
MlLock ==
    /\ mlPc = "lock"
    /\ playlistLock = ""
    /\ playlistLock' = "main"
    /\ mlPc' = "match"
    /\ stale' = FALSE
    /\ syncOk' = FALSE
    /\ UNCHANGED <<daemonVars, pendingNotif, playlist, lastTrack, listener,
                   mlSong, mlSeek, spVars, changes, lastBy, finished>>
    /\ UNCHANGED notSync

\* A reconciliation that reloads the playlist whether it is in sync or not.
MlMatchAlwaysReloads ==
    /\ mlPc = "match"
    /\ \E ok \in BOOLEAN :
        IF ~ok THEN MlFail /\ UNCHANGED syncOk
        ELSE /\ mlPc' = "status"
             /\ UNCHANGED <<playlistLock, mlSong, mlSeek, syncOk>>
    /\ UNCHANGED <<daemonVars, pendingNotif, playlist, lastTrack, listener,
                   spVars, changes, stale, lastBy, finished>>
    /\ UNCHANGED notSync

\* withMpd and playlistMatchesServer (mpd.go:190-197): an error of either
\* ends the handling; a playlist in sync ends it with nothing done.
MlMatch ==
    /\ mlPc = "match"
    /\ \E ok \in BOOLEAN :
        IF ~ok THEN MlFail /\ UNCHANGED syncOk
        ELSE IF playlistMatchesServer(queue, playlist)
        THEN MlRelease /\ syncOk' = TRUE
        ELSE /\ mlPc' = "status"
             /\ UNCHANGED <<playlistLock, mlSong, mlSeek, syncOk>>
    /\ UNCHANGED <<daemonVars, pendingNotif, playlist, lastTrack, listener,
                   spVars, changes, stale, lastBy, finished>>
    /\ UNCHANGED notSync

\* removePlayedTracks: mpdc.Status() and the song index (mpd.go:275-279)
MlStatus ==
    /\ mlPc = "status"
    /\ \E ok \in BOOLEAN :
        IF ~ok THEN MlFail
        ELSE /\ mlSong' = song
             /\ UNCHANGED mlSeek
             /\ mlPc' = IF song > 0 THEN "delete" ELSE "load"
             /\ UNCHANGED playlistLock
    /\ UNCHANGED <<daemonVars, pendingNotif, playlist, lastTrack, listener,
                   spVars, histVars>>
    /\ UNCHANGED notSync

\* removePlayedTracks: mpdc.Delete(0, songIndex) (mpd.go:280); the daemon
\* refuses a range that ends beyond its queue.
MlDelete ==
    /\ mlPc = "delete"
    /\ \E ok \in BOOLEAN :
        IF ~ok \/ mlSong > Len(queue)
        THEN MlFail /\ UNCHANGED <<queue, song, pendingNotif>>
        ELSE /\ queue' = DeleteRange(queue, 0, mlSong)
             /\ song' = SongAfterDelete(0, mlSong)
             /\ pendingNotif' = pendingNotif \cup {"playlist"}
             /\ mlPc' = "load"
             /\ UNCHANGED <<playlistLock, mlSong, mlSeek>>
    /\ UNCHANGED <<mpdState, stickers, playlist, lastTrack, listener, spVars,
                   histVars>>
    /\ UNCHANGED notSync

\* The head the reconciliation finds gone: the old playlist is old head and
\* then exactly the new one, and the old head is the last observed head.
FinishedHead(old, ids) ==
    IF /\ old # <<>>
       /\ ids # <<>>
       /\ lastTrack = old[1].uri
       /\ PlaylistUris(old) = <<lastTrack>> \o ids
    THEN lastTrack ELSE NoUri

\* A merge that takes nothing from the local playlist.
MergedFromNothing(ids) == InterpolatePlaylistMeta(<<>>, ids)

\* newPlist := player.InterpolatePlaylistMeta(pl.playlist, newPlistIds)
\* (mpd.go:206)
MergedPlaylist(ids) == InterpolatePlaylistMeta(playlist, ids)

\* A reconciliation that emits "playlist" only.
MlLoadNoEnd ==
    /\ mlPc = "load"
    /\ \E ok \in BOOLEAN :
        IF ~ok
        THEN MlFail /\ UNCHANGED <<playlist, listener, syncOk, lastBy, finished>>
        ELSE LET newPlistIds == loadPlaylist(queue)
                 newPlist == MergedPlaylist(newPlistIds)
             IN /\ playlist' = newPlist
                /\ listener' = Emit(listener, "playlist")
                /\ MlRelease
                /\ syncOk' = TRUE
                /\ lastBy' = "sync"
                /\ finished' = FinishedHead(playlist, newPlistIds)
    /\ UNCHANGED <<daemonVars, pendingNotif, lastTrack, spVars, changes, stale>>
    /\ UNCHANGED notSync

\* loadPlaylist, the merge, the assignment of pl.playlist and the emits
\* (mpd.go:202-218).
MlLoad ==
    /\ mlPc = "load"
    /\ \E ok \in BOOLEAN :
        IF ~ok
        THEN MlFail /\ UNCHANGED <<playlist, listener, syncOk, lastBy, finished>>
        ELSE LET newPlistIds == loadPlaylist(queue)
                 newPlist == MergedPlaylist(newPlistIds)
             IN /\ playlist' = newPlist
                /\ listener' = IF Len(newPlist) = 0
                               THEN Emit(Emit(listener, "playlist"), "playlist-end")
                               ELSE Emit(listener, "playlist")
                /\ MlRelease
                /\ syncOk' = TRUE
                /\ lastBy' = "sync"
                /\ finished' = FinishedHead(playlist, newPlistIds)
    /\ UNCHANGED <<daemonVars, pendingNotif, lastTrack, spVars, changes, stale>>
    /\ UNCHANGED notSync

\* case "playlist": pl.playlistLock.Lock() (mpd.go:224)
MlPlLock ==
    /\ mlPc = "plLock"
    /\ playlistLock = ""
    /\ playlistLock' = "main"
    /\ mlPc' = "head"
    /\ UNCHANGED <<daemonVars, pendingNotif, playlist, lastTrack, listener,
                   mlSong, mlSeek, spVars, histVars>>
    /\ UNCHANGED notSync

\* A test that takes every observed head for a changed one.
HeadChangedAlways(cur) == lastTrack # NoUri

\* pl.lastTrack != "" && pl.lastTrack != cur.TrackUri() (mpd.go:228)
HeadChanged(cur) == lastTrack # NoUri /\ lastTrack # TrackUri(cur)

\* A handler that counts a changed head without seeking.
MlHeadNoSeek ==
    /\ mlPc = "head"
    /\ \E ok \in BOOLEAN :
        IF ~ok THEN MlFail /\ UNCHANGED lastTrack
        ELSE IF Len(playlist) = 0 THEN MlRelease /\ UNCHANGED lastTrack
        ELSE LET cur == playlist[1] IN
             IF HeadChanged(cur)
             THEN /\ mlPc' = "incr"
                  /\ UNCHANGED <<playlistLock, mlSong, mlSeek, lastTrack>>
             ELSE /\ lastTrack' = TrackUri(cur)
                  /\ MlRelease
    /\ UNCHANGED <<daemonVars, pendingNotif, playlist, listener, spVars, histVars>>
    /\ UNCHANGED notSync

\* withMpd and the test of the head (mpd.go:225-228, 244): an unchanged
\* head is recorded at once, a changed one goes on to seek and count.
MlHead ==
    /\ mlPc = "head"
    /\ \E ok \in BOOLEAN :
        IF ~ok THEN MlFail /\ UNCHANGED lastTrack
        ELSE IF Len(playlist) = 0 THEN MlRelease /\ UNCHANGED lastTrack
        ELSE LET cur == playlist[1] IN
             IF HeadChanged(cur)
             THEN /\ mlPc' = IF cur.progress # 0 THEN "seek" ELSE "incr"
                  /\ UNCHANGED <<playlistLock, mlSong, mlSeek, lastTrack>>
             ELSE /\ lastTrack' = TrackUri(cur)
                  /\ MlRelease
    /\ UNCHANGED <<daemonVars, pendingNotif, playlist, listener, spVars, histVars>>
    /\ UNCHANGED notSync

\* pl.Seek(cur.Progress) (mpd.go:234-238); the daemon's elapsed time is not
\* a variable of the model.
MlSeek ==
    /\ mlPc = "seek"
    /\ \E ok \in BOOLEAN :
        IF ~ok THEN MlFail
        ELSE /\ mlPc' = "incr"
             /\ mlSeek' = playlist[1].progress
             /\ UNCHANGED <<playlistLock, mlSong>>
    /\ UNCHANGED <<daemonVars, pendingNotif, playlist, lastTrack, listener,
                   spVars, histVars>>
    /\ UNCHANGED notSync

\* strings.HasPrefix(uri, URI_SCHEMA)
InCatalogue(uri) == uri[1] = URI_SCHEMA

\* A count given to the head observed before, not to the new one.
incrementPlayCountOfLast(uri) ==
    IF ~InCatalogue(lastTrack) THEN stickers
    ELSE [stickers EXCEPT ![uriToMpd(lastTrack)[2]] = ParseInt32(@) + 1]

\* incrementPlayCount (mpd.go:641-654) when its commands succeed: the
\* stickers after it.  A file without the sticker counts from 0.
incrementPlayCount(uri) ==
    IF ~InCatalogue(uri) THEN stickers
    ELSE [stickers EXCEPT ![uriToMpd(uri)[2]] = ParseInt32(@) + 1]

\* incrementPlayCount and pl.lastTrack = cur.TrackUri() (mpd.go:240-244).
\* A failed command leaves the count and lastTrack as they were.
MlIncr ==
    /\ mlPc = "incr"
    /\ LET cur == playlist[1] IN
       \E ok \in BOOLEAN :
        IF ~ok /\ InCatalogue(TrackUri(cur))
        THEN MlFail /\ UNCHANGED <<stickers, lastTrack>>
        ELSE /\ stickers' = incrementPlayCount(TrackUri(cur))
             /\ lastTrack' = TrackUri(cur)
             /\ MlRelease
    /\ UNCHANGED <<queue, song, mpdState, pendingNotif, playlist, listener,
                   spVars, histVars>>
    /\ UNCHANGED notSync

\* if err != nil { log.Println(err) } (mpd.go:219-221, 249-251): mainLoop
\* goes on with its next receive.
MlLog ==
    /\ mlPc = "failed"
    /\ mlPc' = "recv"
    /\ UNCHANGED <<daemonVars, pendingNotif, playlist, lastTrack, playlistLock,
                   listener, mlSong, mlSeek, spVars, histVars>>
    /\ UNCHANGED notSync

\* ---- SetPlaylist (mpd.go:449-497)

Progresses == {0, 1}

\* The playlists a caller passes: the one it read with a track of its own
\* added, or with the head removed.
SetPlaylistArgs ==
    (IF Len(playlist) < MaxQueue
     THEN {Append(playlist, [uri |-> u, queuedBy |-> "user", progress |-> p]) :
               u \in TrackUris, p \in Progresses}
     ELSE {})
    \cup (IF playlist # <<>> THEN {Tail(playlist)} ELSE {})

\* A goroutine calls SetPlaylist(plist) and takes the lock:
\* pl.playlistLock.Lock() (mpd.go:453)
SpLock ==
    /\ spPc = "idle"
    /\ changes < MaxChanges
    /\ playlistLock = ""
    /\ \E plist \in SetPlaylistArgs : spPlist' = plist
    /\ playlistLock' = "sp"
    /\ spPc' = "info"
    /\ changes' = changes + 1
    /\ spErr' = ""
    /\ UNCHANGED <<daemonVars, pendingNotif, playlist, lastTrack, listener,
                   mlPc, mlSong, mlSeek, spDel, spLen, stale, syncOk, lastBy, finished>>
    /\ UNCHANGED notSync

\* SetPlaylist returns: the deferred Unlock (mpd.go:454).
SpRelease ==
    /\ spPc' = "idle"
    /\ playlistLock' = ""
    /\ spPlist' = <<>>
    /\ spDel' = 0
    /\ spLen' = 0

\* SetPlaylist returns err ("nil": no error).
SpReturn(err) == SpRelease /\ spErr' = err

\* A SetPlaylist that keeps nothing of the queue.
DelStartZero(songs, plist) == 0

\* The number of leading tracks of plist the queue already holds
\* (mpd.go:462-465).
DelStart(songs, plist) ==
    CHOOSE n \in 0 .. Len(songs) :
        /\ n <= Len(plist)
        /\ \A i \in 1 .. n : uriToMpd(plist[i].uri) = songs[i]
        /\ \/ n = Len(songs)
           \/ n = Len(plist)
           \/ uriToMpd(plist[n + 1].uri) # songs[n + 1]

\* withMpd, mpdc.PlaylistInfo and delStart (mpd.go:455-466)
SpInfo ==
    /\ spPc = "info"
    /\ \E ok \in BOOLEAN :
        IF ~ok THEN SpReturn("err")
        ELSE /\ spLen' = Len(queue)
             /\ spDel' = DelStart(queue, spPlist)
             /\ spPc' = IF DelStart(queue, spPlist) # Len(queue) THEN "delete"
                        ELSE "add"
             /\ UNCHANGED <<playlistLock, spPlist, spErr>>
    /\ UNCHANGED <<daemonVars, pendingNotif, playlist, lastTrack, listener,
                   mlPc, mlSong, mlSeek, histVars>>
    /\ UNCHANGED notSync

\* mpdc.Delete(delStart, len(songs)) (mpd.go:468-470); the daemon refuses a
\* range that ends beyond its queue.
SpDelete ==
    /\ spPc = "delete"
    /\ \E ok \in BOOLEAN :
        IF ~ok \/ spLen > Len(queue)
        THEN SpReturn("err") /\ UNCHANGED <<queue, song, pendingNotif, stale>>
        ELSE /\ queue' = DeleteRange(queue, spDel, spLen)
             /\ song' = SongAfterDelete(spDel, spLen)
             /\ pendingNotif' = pendingNotif \cup {"playlist"}
             /\ stale' = TRUE
             /\ spPc' = "add"
             /\ UNCHANGED <<playlistLock, spPlist, spDel, spLen, spErr>>
    /\ UNCHANGED <<mpdState, stickers, playlist, lastTrack, listener, mlPc,
                   mlSong, mlSeek, changes, syncOk, lastBy, finished>>
    /\ UNCHANGED notSync

\* The command list of Adds, the assignment of pl.playlist and the emits
\* (mpd.go:474-486).  An empty playlist ends the call here.
SpAdd ==
    /\ spPc = "add"
    /\ \E ok \in BOOLEAN :
        IF ~ok
        THEN /\ SpReturn("err")
             /\ UNCHANGED <<queue, pendingNotif, playlist, listener, stale, lastBy,
                            finished>>
        ELSE LET added == [i \in 1 .. (Len(spPlist) - spDel) |->
                               uriToMpd(spPlist[spDel + i].uri)]
             IN /\ queue' = queue \o added
                /\ pendingNotif' = IF added = <<>> THEN pendingNotif
                                   ELSE pendingNotif \cup {"playlist"}
                /\ stale' = (stale \/ added # <<>>)
                /\ playlist' = spPlist
                /\ lastBy' = "set"
                /\ finished' = NoUri
                /\ IF Len(spPlist) = 0
                   THEN /\ listener' = Emit(Emit(listener, "playlist"), "playlist-end")
                        /\ SpReturn("nil")
                   ELSE /\ listener' = Emit(listener, "playlist")
                        /\ spPc' = "state"
                        /\ UNCHANGED <<playlistLock, spPlist, spDel, spLen, spErr>>
    /\ UNCHANGED <<song, mpdState, stickers, lastTrack, mlPc, mlSong, mlSeek, changes,
                   syncOk>>
    /\ UNCHANGED notSync

\* pl.State() and pl.SetState(PlayStatePlaying) (mpd.go:489-493, 538-555):
\* a daemon that is not playing is told to play; one with an empty queue is
\* not, and "playlist-end" is emitted.
SpState ==
    /\ spPc = "state"
    /\ \E ok \in BOOLEAN :
        IF ~ok
        THEN /\ SpReturn("err")
             /\ UNCHANGED <<song, mpdState, pendingNotif, listener>>
        ELSE IF mpdState = "play"
        THEN /\ SpReturn("nil")
             /\ UNCHANGED <<song, mpdState, pendingNotif, listener>>
        ELSE IF Len(queue) = 0
        THEN /\ listener' = Emit(listener, "playlist-end")
             /\ SpReturn("nil")
             /\ UNCHANGED <<song, mpdState, pendingNotif>>
        ELSE /\ mpdState' = "play"
             /\ song' = IF mpdState = "stop" THEN 0 ELSE song
             /\ pendingNotif' = pendingNotif \cup {"player"}
             /\ SpReturn("nil")
             /\ UNCHANGED listener
    /\ UNCHANGED <<queue, stickers, playlist, lastTrack, mlPc, mlSong, mlSeek, histVars>>
    /\ UNCHANGED notSync

\* ---- Playlist() (mpd.go:422-447)

\* pl.playlistLock.Lock() and the test of an empty playlist (mpd.go:423-427).
PlaylistLock ==
    /\ plPc = "idle"
    /\ playlistLock = ""
    /\ playlistLock' = "pl"
    /\ plPc' = IF playlist = <<>> THEN "unlock" ELSE "status"
    /\ UNCHANGED <<daemonVars, pendingNotif, playlist, lastTrack, listener,
                   mlPc, mlSong, mlSeek, spVars, histVars>>
    /\ UNCHANGED notPlayer

\* The copy of the playlist and the status query that fills in the progress
\* of its head (mpd.go:429-446): the copy goes to the caller, whether the
\* query fails or not nothing of the player changes.
PlaylistStatus ==
    /\ plPc = "status"
    /\ plPc' = "unlock"
    /\ UNCHANGED syncVars
    /\ UNCHANGED notPlayer

\* The deferred pl.playlistLock.Unlock() (mpd.go:424).
PlaylistUnlock ==
    /\ plPc = "unlock"
    /\ playlistLock' = ""
    /\ plPc' = "idle"
    /\ UNCHANGED <<daemonVars, pendingNotif, playlist, lastTrack, listener,
                   mlPc, mlSong, mlSeek, spVars, histVars>>
    /\ UNCHANGED notPlayer

SyncNext ==
    \/ \E s \in Songs : ExtAdd(s)
    \/ ExtDeleteHead
    \/ SongAdvance
    \/ \E e \in {"playlist", "player"} : WatcherEvent(e)
    \/ MlRecv
    \/ MlLock
    \/ MlMatch
    \/ MlStatus
    \/ MlDelete
    \/ MlLoad
    \/ MlPlLock
    \/ MlHead
    \/ MlSeek
    \/ MlIncr
    \/ MlLog
    \/ SpLock
    \/ SpInfo
    \/ SpDelete
    \/ SpAdd
    \/ SpState

\* The player with callers of Playlist() too.
LockNext ==
    \/ SyncNext
    \/ PlaylistLock
    \/ PlaylistStatus
    \/ PlaylistUnlock

\* The player with a daemon whose queue no other client changes: the daemon
\* plays on, and mainLoop and SetPlaylist do the rest.
SetNext ==
    \/ SongAdvance
    \/ \E e \in {"playlist", "player"} : WatcherEvent(e)
    \/ MlRecv
    \/ MlLock
    \/ MlMatch
    \/ MlStatus
    \/ MlDelete
    \/ MlLoad
    \/ MlPlLock
    \/ MlHead
    \/ MlSeek
    \/ MlIncr
    \/ MlLog
    \/ SpLock
    \/ SpInfo
    \/ SpDelete
    \/ SpAdd
    \/ SpState

(***************************************************************************)
(* The order in which the player's threads take the playlist lock and the  *)
(* pooled connections (mpd.go:70-73).  A thread is mainLoop or a caller of *)
(* the player's methods; what it does is reduced to its steps on the lock  *)
(* and on the pool: "Lock" and "Unlock" of playlistLock, "Acquire" on      *)
(* entering a withMpd callback and "Release" on leaving it.                *)
(***************************************************************************)
MainLoopId == 0
NoThread == NumCallers + 1
Threads == {MainLoopId} \cup Callers

\* The operations a thread starts: mainLoop handles events, a caller calls
\* methods.
OpsOf(t) == IF t = MainLoopId THEN {"mpd-playlist", "playlist", "mpd-update"}
            ELSE {"TrackInfo", "Playlist", "SetPlaylist", "Tracks"}

\* Steps in which TrackInfo reads the playlist head inside its callback.
OpStepsLockInside(op) ==
    CASE op = "TrackInfo" -> {<<"Acquire", "Lock", "Unlock", "Release">>}
      [] op \in {"mpd-playlist", "Playlist"} ->
            {<<"Lock", "Acquire", "Release", "Unlock">>}
      [] OTHER -> {<<"Acquire", "Release">>}

\* The steps of an operation, one sequence for each way through its code.
\*   "mpd-playlist" (mpd.go:189-218);
\*   "playlist" (mpd.go:224-248), with pl.Seek's withMpd (mpd.go:235, 500)
\*       inside the callback when the head has a progress;
\*   "mpd-update" (mpd.go:257-266);
\*   TrackInfo (mpd.go:377-385): the lock is released before withMpd;
\*   Playlist (mpd.go:423-446): an empty playlist returns before withMpd;
\*   SetPlaylist (mpd.go:453-496), with pl.State's (mpd.go:489, 517) and
\*       pl.SetState's (mpd.go:492, 534) withMpd inside the callback;
\*   Tracks (mpd.go:355).
OpSteps(op) ==
    CASE op = "mpd-playlist" -> {<<"Lock", "Acquire", "Release", "Unlock">>}
      [] op = "playlist" ->
            {<<"Lock", "Acquire", "Release", "Unlock">>,
             <<"Lock", "Acquire", "Acquire", "Release", "Release", "Unlock">>}
      [] op = "mpd-update" -> {<<"Acquire", "Release">>}
      [] op = "TrackInfo" -> {<<"Lock", "Unlock", "Acquire", "Release">>}
      [] op = "Playlist" ->
            {<<"Lock", "Unlock">>,
             <<"Lock", "Acquire", "Release", "Unlock">>}
      [] op = "SetPlaylist" ->
            {<<"Lock", "Acquire", "Release", "Unlock">>,
             <<"Lock", "Acquire", "Acquire", "Release", "Release", "Unlock">>,
             <<"Lock", "Acquire", "Acquire", "Release", "Acquire", "Release",
               "Release", "Unlock">>}
      [] OTHER -> {<<"Acquire", "Release">>}

\* Connect (mpd.go:84-116): no thread runs an operation, the pool is full.
OrderInit ==
    /\ oSteps = [t \in Threads |-> <<>>]
    /\ oHeld = [t \in Threads |-> 0]
    /\ oLock = NoThread
    /\ oFree = PoolCap

\* The thread's next step is st.
AtStep(t, st) == oSteps[t] # <<>> /\ Head(oSteps[t]) = st

\* mainLoop receives an event, or a caller calls a method.
OpCall(t) ==
    /\ oSteps[t] = <<>>
    /\ \E op \in OpsOf(t) : \E sq \in OpSteps(op) :
          oSteps' = [oSteps EXCEPT ![t] = sq]
    /\ UNCHANGED <<oHeld, oLock, oFree>>
    /\ UNCHANGED notOrder

\* pl.playlistLock.Lock() (mpd.go:189, 224, 377, 423, 453)
OpLock(t) ==
    /\ AtStep(t, "Lock")
    /\ oLock = NoThread
    /\ oLock' = t
    /\ oSteps' = [oSteps EXCEPT ![t] = Tail(@)]
    /\ UNCHANGED <<oHeld, oFree>>
    /\ UNCHANGED notOrder

\* pl.playlistLock.Unlock() (mpd.go:218, 248, 382, 424, 454)
OpUnlock(t) ==
    /\ AtStep(t, "Unlock")
    /\ oLock' = NoThread
    /\ oSteps' = [oSteps EXCEPT ![t] = Tail(@)]
    /\ UNCHANGED <<oHeld, oFree>>
    /\ UNCHANGED notOrder

\* withMpd takes a client from the pool and calls fn (mpd.go:133-149).
OpAcquire(t) ==
    /\ AtStep(t, "Acquire")
    /\ oFree > 0
    /\ oFree' = oFree - 1
    /\ oHeld' = [oHeld EXCEPT ![t] = @ + 1]
    /\ oSteps' = [oSteps EXCEPT ![t] = Tail(@)]
    /\ UNCHANGED oLock
    /\ UNCHANGED notOrder

\* fn returns and the deferred function puts the client back
\* (mpd.go:144-149).
OpRelease(t) ==
    /\ AtStep(t, "Release")
    /\ oFree' = oFree + 1
    /\ oHeld' = [oHeld EXCEPT ![t] = @ - 1]
    /\ oSteps' = [oSteps EXCEPT ![t] = Tail(@)]
    /\ UNCHANGED oLock
    /\ UNCHANGED notOrder

OrderNext ==
    \E t \in Threads :
        \/ OpCall(t)
        \/ OpLock(t)
        \/ OpUnlock(t)
        \/ OpAcquire(t)
        \/ OpRelease(t)

(***************************************************************************)
(* The Event Watcher (eventLoop, mpd.go:152-174), the emitter it and       *)
(* mainLoop publish through, and mainLoop's handling of the catalogue and  *)
(* mixer notifications (mpd.go:253-269).  The emitter has two subscribers: *)
(* mainLoop (mpd.go:177) and one outside the player, such as the listener  *)
(* of TestUpdateEvent (mpd_test.go:42) or TrackCache.Run (filter.go:335).  *)
(***************************************************************************)
Subscribers == {"main", "sub"}

\* "mpd-" + event (mpd.go:167).
MpdEvent(x) == CASE x = "update" -> "mpd-update"
                 [] x = "mixer" -> "mpd-mixer"
                 [] x = "playlist" -> "mpd-playlist"
                 [] OTHER -> "mpd-player"

\* Connect (mpd.go:84-116) and mainLoop's bootstrap (mpd.go:177-179): the
\* watcher is not connected yet, mainLoop's channel holds "mpd-playlist".
WatchInit ==
    /\ evPc = "connect"
    /\ wEvent = <<>>
    /\ wError = FALSE
    /\ dUpdating = FALSE
    /\ subs = [s \in Subscribers |-> IF s = "main" THEN <<"mpd-playlist">> ELSE <<>>]
    /\ lpPc = "recv"
    /\ lpStatus = "none"
    /\ hSent = <<>>
    /\ hEmitted = <<>>
    /\ evSlept = FALSE
    /\ evAttempts = 0
    /\ openWatchers = 0
    /\ dNotifs = 0
    /\ dropped = {}
    /\ hErr = FALSE
    /\ hUpd = "none"
    /\ hConnected = FALSE
    /\ hTracks = FALSE

evVars == <<evPc, wEvent, wError, hSent, hEmitted, evSlept, evAttempts,
            openWatchers>>
lpVars == <<lpPc, lpStatus>>
updVars == <<dUpdating, dNotifs, hUpd, hConnected>>

\* An Emit that waits for every subscriber to have room.
PublishBlocking(e) ==
    /\ \A s \in Subscribers : Len(subs[s]) < ListenerCap
    /\ subs' = [s \in Subscribers |-> Emit(subs[s], e)]
    /\ dropped' = dropped

\* pl.Emit(e): every subscriber with room gets e, for the others it is
\* dropped.
Publish(e) ==
    /\ subs' = [s \in Subscribers |-> Emit(subs[s], e)]
    /\ dropped' = dropped \cup {s \in Subscribers : Len(subs[s]) >= ListenerCap}

\* The watcher is subscribed to the daemon's notifications.
Subscribed == evPc \in {"avail", "loop"}

\* The daemon notifies its subscribed watcher of a changed subsystem.
Notify(x) ==
    IF Subscribed
    THEN /\ Len(wEvent) < MaxPending
         /\ wEvent' = Append(wEvent, x)
         /\ hSent' = Append(hSent, x)
    ELSE UNCHANGED <<wEvent, hSent>>

\* ---- the daemon

\* A client has the daemon update its catalogue (mpd_test.go:44-47).
DaemonUpdateStart ==
    /\ hUpd = "none"
    /\ dNotifs < MaxNotifs
    /\ dUpdating' = TRUE
    /\ hUpd' = "started"
    /\ hConnected' = Subscribed
    /\ dNotifs' = dNotifs + 1
    /\ Notify("update")
    /\ UNCHANGED <<evPc, wError, evSlept, evAttempts, openWatchers, hEmitted, subs, lpVars,
                   dropped, hErr, hTracks>>
    /\ UNCHANGED notWatch

\* The daemon's update completes.
DaemonUpdateFinish ==
    /\ dUpdating
    /\ dNotifs < MaxNotifs
    /\ dUpdating' = FALSE
    /\ hUpd' = "done"
    /\ dNotifs' = dNotifs + 1
    /\ Notify("update")
    /\ UNCHANGED <<evPc, wError, evSlept, evAttempts, openWatchers, hEmitted, subs, lpVars,
                   dropped, hErr, hConnected, hTracks>>
    /\ UNCHANGED notWatch

\* A client changes the daemon's volume.
DaemonMixer ==
    /\ dNotifs < MaxNotifs
    /\ dNotifs' = dNotifs + 1
    /\ Notify("mixer")
    /\ UNCHANGED <<evPc, wError, evSlept, evAttempts, openWatchers, hEmitted, subs, lpVars,
                   dUpdating, hUpd, hConnected, dropped, hErr, hTracks>>
    /\ UNCHANGED notWatch

\* The watcher's connection to the daemon fails.
DaemonStreamError ==
    /\ Subscribed
    /\ ~wError
    /\ evAttempts < MaxAttempts
    /\ wError' = TRUE
    /\ hErr' = TRUE
    /\ UNCHANGED <<evPc, wEvent, hSent, hEmitted, evSlept, evAttempts, openWatchers, subs,
                   lpVars, updVars, dropped, hTracks>>
    /\ UNCHANGED notWatch

\* ---- eventLoop (mpd.go:152-174)

\* mpd.NewWatcher (mpd.go:154-159): a failure leads to the sleep.
EvConnect ==
    /\ evPc = "connect"
    /\ evAttempts < MaxAttempts
    /\ evAttempts' = evAttempts + 1
    /\ evSlept' = FALSE
    /\ \E ok \in BOOLEAN :
        IF ok THEN /\ evPc' = "avail"
                   /\ openWatchers' = openWatchers + 1
                   /\ UNCHANGED hErr
        ELSE /\ evPc' = "sleep"
             /\ hErr' = TRUE
             /\ UNCHANGED openWatchers
    /\ UNCHANGED <<wEvent, wError, hSent, hEmitted, subs, lpVars, updVars,
                   dropped, hTracks>>
    /\ UNCHANGED notWatch

\* time.Sleep(time.Second); continue (mpd.go:156-157)
EvSleep ==
    /\ evPc = "sleep"
    /\ evPc' = "connect"
    /\ evSlept' = TRUE
    /\ UNCHANGED <<wEvent, wError, hSent, hEmitted, evAttempts, openWatchers, subs, lpVars,
                   updVars, dropped, hErr, hTracks>>
    /\ UNCHANGED notWatch

\* pl.Emit("availability") after the watcher is made (mpd.go:161)
EvAvailability ==
    /\ evPc = "avail"
    /\ Publish("availability")
    /\ hEmitted' = <<"availability">>
    /\ evPc' = "loop"
    /\ UNCHANGED <<wEvent, wError, hSent, evSlept, evAttempts, openWatchers, lpVars, updVars,
                   hErr, hTracks>>
    /\ UNCHANGED notWatch

\* An eventLoop that takes the newest notification first.
EvNotifyNewest ==
    /\ evPc = "loop"
    /\ wEvent # <<>>
    /\ Publish(MpdEvent(wEvent[Len(wEvent)]))
    /\ hEmitted' = Append(hEmitted, MpdEvent(wEvent[Len(wEvent)]))
    /\ wEvent' = SubSeq(wEvent, 1, Len(wEvent) - 1)
    /\ UNCHANGED <<evPc, wError, hSent, evSlept, evAttempts, openWatchers, lpVars, updVars,
                   hErr, hTracks>>
    /\ UNCHANGED notWatch

\* case event := <-watcher.Event: pl.Emit("mpd-" + event) (mpd.go:165-167)
EvNotify ==
    /\ evPc = "loop"
    /\ wEvent # <<>>
    /\ Publish(MpdEvent(Head(wEvent)))
    /\ hEmitted' = Append(hEmitted, MpdEvent(Head(wEvent)))
    /\ wEvent' = Tail(wEvent)
    /\ UNCHANGED <<evPc, wError, hSent, evSlept, evAttempts, openWatchers, lpVars, updVars,
                   hErr, hTracks>>
    /\ UNCHANGED notWatch

\* case <-watcher.Error: pl.Emit("availability"); break loop (mpd.go:168-170):
\* the outer loop goes on with NewWatcher, the watcher and what it holds are
\* left behind.
EvError ==
    /\ evPc = "loop"
    /\ wError
    /\ Publish("availability")
    /\ evPc' = "connect"
    /\ wError' = FALSE
    /\ wEvent' = <<>>
    /\ hSent' = <<>>
    /\ hEmitted' = <<>>
    /\ UNCHANGED <<evSlept, evAttempts, openWatchers, lpVars, updVars, hErr, hTracks>>
    /\ UNCHANGED notWatch

\* ---- mainLoop (mpd.go:181-270)

\* switch event := <-listener (mpd.go:182): the cases of "mpd-playlist",
\* "playlist", "mpd-mixer" and "mpd-update"; any other event is passed over.
LoopRecv ==
    /\ lpPc = "recv"
    /\ subs["main"] # <<>>
    /\ LET e == Head(subs["main"]) IN
        lpPc' = CASE e = "mpd-update" -> "status"
                  [] e = "mpd-mixer" -> "volume"
                  [] e \in {"mpd-playlist", "mpd-player"} -> "reconcile"
                  [] e = "playlist" -> "head"
                  [] OTHER -> "recv"
    /\ subs' = [subs EXCEPT !["main"] = Tail(@)]
    /\ UNCHANGED <<evVars, lpStatus, updVars, dropped, hErr, hTracks>>
    /\ UNCHANGED notWatch

\* case "mpd-playlist" (mpd.go:188-221): "playlist" is emitted when the
\* reconciliation has replaced the playlist.
LoopReconcile ==
    /\ lpPc = "reconcile"
    /\ \E changed \in BOOLEAN :
        IF changed THEN Publish("playlist") ELSE UNCHANGED <<subs, dropped>>
    /\ lpPc' = "recv"
    /\ UNCHANGED <<evVars, lpStatus, updVars, hErr, hTracks>>
    /\ UNCHANGED notWatch

\* case "playlist" (mpd.go:223-251): nothing is emitted.
LoopHead ==
    /\ lpPc = "head"
    /\ lpPc' = "recv"
    /\ UNCHANGED <<evVars, lpStatus, updVars, subs, dropped, hErr, hTracks>>
    /\ UNCHANGED notWatch

\* A handler of "mpd-mixer" whose Emit waits for room.
LoopVolumeBlocking ==
    /\ lpPc = "volume"
    /\ PublishBlocking("volume")
    /\ lpPc' = "recv"
    /\ UNCHANGED <<evVars, lpStatus, updVars, hErr, hTracks>>
    /\ UNCHANGED notWatch

\* case "mpd-mixer": pl.Emit("volume") (mpd.go:253-254)
LoopVolume ==
    /\ lpPc = "volume"
    /\ Publish("volume")
    /\ lpPc' = "recv"
    /\ UNCHANGED <<evVars, lpStatus, updVars, hErr, hTracks>>
    /\ UNCHANGED notWatch

\* case "mpd-update": withMpd and mpdc.Status() (mpd.go:257-261)
LoopStatus ==
    /\ lpPc = "status"
    /\ \E ok \in BOOLEAN :
        IF ok
        THEN /\ lpStatus' = IF dUpdating THEN "updating" ELSE "idle"
             /\ UNCHANGED hErr
        ELSE /\ lpStatus' = "fail"
             /\ hErr' = TRUE
    /\ lpPc' = "checked"
    /\ UNCHANGED <<evVars, updVars, subs, dropped, hTracks>>
    /\ UNCHANGED notWatch

\* A handler of "mpd-update" that does not look at the status.
LoopTracksAlways ==
    /\ lpPc = "checked"
    /\ Publish("tracks")
    /\ lpPc' = "recv"
    /\ lpStatus' = "none"
    /\ UNCHANGED <<evVars, updVars, hErr, hTracks>>
    /\ UNCHANGED notWatch

\* if _, ok := status["updating_db"]; !ok { pl.Emit("tracks") }
\* (mpd.go:259-265); a failed query returns without it.
LoopTracks ==
    /\ lpPc = "checked"
    /\ IF lpStatus = "idle" THEN Publish("tracks")
       ELSE UNCHANGED <<subs, dropped>>
    /\ lpPc' = "recv"
    /\ lpStatus' = "none"
    /\ UNCHANGED <<evVars, updVars, hErr, hTracks>>
    /\ UNCHANGED notWatch

\* The subscriber outside the player receives an event (mpd_test.go:53-57).
SubRecv ==
    /\ subs["sub"] # <<>>
    /\ subs' = [subs EXCEPT !["sub"] = Tail(@)]
    /\ hTracks' = (hTracks \/ (Head(subs["sub"]) = "tracks" /\ hUpd # "none"))
    /\ UNCHANGED <<evVars, lpVars, updVars, dropped, hErr>>
    /\ UNCHANGED notWatch

WatchNext ==
    \/ DaemonUpdateStart
    \/ DaemonUpdateFinish
    \/ DaemonMixer
    \/ DaemonStreamError
    \/ EvConnect
    \/ EvSleep
    \/ EvAvailability
    \/ EvNotify
    \/ EvError
    \/ LoopRecv
    \/ LoopReconcile
    \/ LoopHead
    \/ LoopVolume
    \/ LoopStatus
    \/ LoopTracks
    \/ SubRecv

(***************************************************************************)
(* PlaylistMetaKeeper: a playlist that keeps a TrackMeta for each of its   *)
(* tracks.  Its code is not part of the sources; what is modelled is what  *)
(* its test uses (keeper_test.go:30-49): InsertWithMeta(pos, tracks, meta) *)
(* and Meta().  A track is a number, so that equal tracks can be told      *)
(* apart.                                                                  *)
(***************************************************************************)
QueuedBys == {"system", "user"}
TrackMetas == [queuedBy : QueuedBys]

\* The sequence sq with ins put in at index pos, counted from 0.
InsertAt(sq, pos, ins) ==
    SubSeq(sq, 1, pos) \o ins \o SubSeq(sq, pos + 1, Len(sq))

\* The sequences over S of length n.
SeqsOf(S, n) == [1 .. n -> S]

\* metapl := PlaylistMetaKeeper{Playlist: &DummyPlaylist{}}
\* (keeper_test.go:31)
KeeperInit ==
    /\ kTracks = <<>>
    /\ kMeta = <<>>
    /\ kPc = "idle"
    /\ kPos = 0
    /\ kArgT = <<>>
    /\ kArgM = <<>>
    /\ kErr = FALSE
    /\ kBy = <<>>

\* A call of InsertWithMeta (keeper_test.go:32, 36): new tracks, a position
\* in the playlist and a slice of metadata of any length.
KeeperCall ==
    /\ kPc = "idle"
    /\ \E n \in 0 .. MaxInsert, m \in 0 .. MaxInsert, pos \in 0 .. Len(kTracks) :
        /\ Len(kTracks) + n <= MaxKeeper
        /\ kArgT' = [i \in 1 .. n |-> Len(kBy) + i]
        /\ kArgM' \in SeqsOf(TrackMetas, m)
        /\ kPos' = pos
    /\ kPc' = "call"
    /\ UNCHANGED <<kTracks, kMeta, kErr, kBy>>
    /\ UNCHANGED notKeeper

\* An InsertWithMeta that does not compare the lengths of its arguments.
InsertWithMetaUnchecked ==
    /\ kPc = "call"
    /\ kTracks' = InsertAt(kTracks, kPos, kArgT)
    /\ kMeta' = InsertAt(kMeta, kPos, kArgM)
    /\ kBy' = kBy \o [i \in 1 .. Len(kArgT) |->
                        IF i <= Len(kArgM) THEN kArgM[i].queuedBy ELSE "system"]
    /\ kErr' = FALSE
    /\ kPc' = "idle"
    /\ kPos' = 0
    /\ kArgT' = <<>>
    /\ kArgM' = <<>>
    /\ UNCHANGED notKeeper

\* An InsertWithMeta that puts the metadata at the end.
InsertWithMetaAppended ==
    /\ kPc = "call"
    /\ IF Len(kArgT) # Len(kArgM)
       THEN /\ kErr' = TRUE
            /\ UNCHANGED <<kTracks, kMeta, kBy>>
       ELSE /\ kTracks' = InsertAt(kTracks, kPos, kArgT)
            /\ kMeta' = kMeta \o kArgM
            /\ kBy' = kBy \o [i \in 1 .. Len(kArgM) |-> kArgM[i].queuedBy]
            /\ kErr' = FALSE
    /\ kPc' = "idle"
    /\ kPos' = 0
    /\ kArgT' = <<>>
    /\ kArgM' = <<>>
    /\ UNCHANGED notKeeper

\* InsertWithMeta: slices of different lengths are refused
\* (keeper_test.go:32-34); otherwise the tracks go into the playlist at pos
\* and their metadata into the same places (keeper_test.go:36-48).
InsertWithMeta ==
    /\ kPc = "call"
    /\ IF Len(kArgT) # Len(kArgM)
       THEN /\ kErr' = TRUE
            /\ UNCHANGED <<kTracks, kMeta, kBy>>
       ELSE /\ kTracks' = InsertAt(kTracks, kPos, kArgT)
            /\ kMeta' = InsertAt(kMeta, kPos, kArgM)
            /\ kBy' = kBy \o [i \in 1 .. Len(kArgM) |-> kArgM[i].queuedBy]
            /\ kErr' = FALSE
    /\ kPc' = "idle"
    /\ kPos' = 0
    /\ kArgT' = <<>>
    /\ kArgM' = <<>>
    /\ UNCHANGED notKeeper

\* metapl.Meta() (keeper_test.go:39)
Meta == kMeta

KeeperNext ==
    \/ KeeperCall
    \/ InsertWithMeta

(***************************************************************************)
(* Specifications.                                                         *)
(***************************************************************************)
\* A specification moves one component; the others stay as constructed and
\* unused: an empty catalogue, a call of filter.Tracks with no tracks, and
\* a stopped daemon with an empty queue.
CacheIdle == CacheInit /\ dbTracks = <<>>
FilterIdle == FilterInit /\ fTracks = <<>> /\ numCPU = 1
SyncIdle == SyncInit /\ queue = <<>> /\ mpdState = "stop"

PoolStart == PoolInit /\ CacheIdle /\ FilterIdle /\ SyncIdle /\ OrderInit /\ WatchInit
    /\ KeeperInit
PoolSpec == PoolStart /\ [][PoolNext]_vars

SyncStart == PoolInit /\ CacheIdle /\ FilterIdle /\ SyncInit /\ OrderInit /\ WatchInit
    /\ KeeperInit
SyncSpec == SyncStart /\ [][SyncNext]_vars

CacheStart == PoolInit /\ CacheInit /\ FilterIdle /\ SyncIdle /\ OrderInit /\ WatchInit
    /\ KeeperInit
CacheSpec == CacheStart /\ [][CacheNext]_vars

\* The player and a caller of Playlist(), from the queues of at most
\* MaxLockQueue songs.
SetStart == PoolInit /\ CacheIdle /\ FilterIdle /\ SyncInit /\ OrderInit /\ WatchInit
    /\ KeeperInit
SetSpec == SetStart /\ [][SetNext]_vars

LockStart == SyncStart /\ Len(queue) <= MaxLockQueue
LockSpec == LockStart /\ [][LockNext]_vars

OrderStart == PoolInit /\ CacheIdle /\ FilterIdle /\ SyncIdle /\ OrderInit /\ WatchInit
    /\ KeeperInit
OrderSpec == OrderStart /\ [][OrderNext]_vars

WatchStart == PoolInit /\ CacheIdle /\ FilterIdle /\ SyncIdle /\ OrderInit /\ WatchInit
    /\ KeeperInit
WatchSpec == WatchStart /\ [][WatchNext]_vars

KeeperStart == PoolInit /\ CacheIdle /\ FilterIdle /\ SyncIdle /\ OrderInit /\ WatchInit
    /\ KeeperInit
KeeperSpec == KeeperStart /\ [][KeeperNext]_vars

FilterStart == PoolInit /\ CacheIdle /\ FilterInit /\ SyncIdle /\ OrderInit /\ WatchInit
    /\ KeeperInit
FilterSpec == FilterStart /\ [][FilterNext]_vars

\* filter.Tracks with the Go scheduler: a goroutine that can take a step is
\* not held back for ever.  Every step of FilterNext moves some goroutine
\* forward, so weak fairness of the whole suffices.
FilterFairSpec == FilterStart /\ [][FilterNext]_vars /\ WF_vars(FilterNext)

(***************************************************************************)
(* Properties.                                                             *)
(***************************************************************************)

\* ---- C2 (PoolSpec) ----------------------------------------------------
\* The pooled connections that are open.
LiveConns == {r \in Rcs : rcConn[r] = "open"}

\* C2: in every reachable state the number of live pooled connections, those
\* of Connect and the replacements made in withMpd together, is at most the
\* capacity of the pool.
C2_LiveWithinCapacity == Cardinality(LiveConns) <= PoolCap

\* A caller runs its callback on a replacement while the pool's other
\* connections are alive: the capacity is reached with a replacement.
C2_Witness ==
    \E c \in Callers :
        /\ wPc[c] = "fn"
        /\ wRc[c] > PoolCap
        /\ Cardinality(LiveConns) = PoolCap

\* ---- C3 (PoolSpec) ----------------------------------------------------
\* C3: an acquisition made after a pooled connection died does not panic,
\* and its callback never runs on a dead (nil, closed) client.
C3_AcquireAfterDeathSucceeds ==
    \A c \in Callers :
        /\ wPc[c] # "panic"
        /\ wPc[c] = "fn" => rcClient[wRc[c]] = "set" /\ rcConn[wRc[c]] = "open"

\* ---- C12 (PoolSpec) ---------------------------------------------------
\* C12: failed replacements do not use the pool up: whenever no caller
\* holds a pooled client, the pool has one for the next acquisition.
C12_PoolNeverDrained ==
    (\A c \in Callers : wRc[c] = 0) => Len(clientPool) > 0

\* ---- C13 (PoolSpec) ---------------------------------------------------
\* C13: no two callers run their callbacks on the same pooled client, and
\* while a caller runs its callback the client's supervisor is neither
\* pinging nor closing it.
C13_ExclusiveUse ==
    /\ \A c, d \in Callers :
          (c # d /\ wPc[c] = "fn" /\ wPc[d] = "fn") => wRc[c] # wRc[d]
    /\ \A c \in Callers :
          wPc[c] = "fn" => supPc[wRc[c]] \notin {"pinging", "expiring"}

\* A caller runs its callback while the supervisor of its client, whose
\* ticker has fired, waits for the lock; another caller runs its callback on
\* another client.
C13_Witness ==
    \E c, d \in Callers :
        /\ c # d
        /\ wPc[c] = "fn"
        /\ wPc[d] = "fn"
        /\ supPc[wRc[c]] = "pingLock"
        /\ rcLock[wRc[c]] = c

\* ---- C25 (PoolSpec) ---------------------------------------------------
\* A caller that holds the lock of its client and waits to hand the reset to
\* the client's supervisor, while that supervisor, having taken a ping tick
\* or the expiry, waits for the same lock: neither can take another step.
CallerStuck(c) ==
    /\ wPc[c] = "reset"
    /\ rcReset[wRc[c]] = "open"
    /\ rcLock[wRc[c]] = c
    /\ supPc[wRc[c]] \in {"pingLock", "expireLock"}

\* C25: no withMpd call is ever stuck before its callback: a caller and the
\* supervisor of its client never wait for each other.
C25_NoCallerWaitsForever == \A c \in Callers : ~CallerStuck(c)

\* ---- C26 (PoolSpec) ---------------------------------------------------
\* C26: the step by which a withMpd call that ran its callback returns puts
\* the caller's client back as the one new slot of the pool and releases its
\* lock, whether the callback returned nil or an error.
C26_ReturnPutsOneSlotBack ==
    [][\A c \in Callers :
          (wPc[c] = "fn" /\ wPc'[c] # "fn") =>
              /\ wErr'[c] \in FnResults
              /\ clientPool' = Append(clientPool, wRc[c])
              /\ rcLock'[wRc[c]] = 0
              /\ wRc'[c] = 0]_vars

\* A call whose callback returned an error has returned, and so has one
\* whose callback returned nil; the pool holds all its slots.
C26_Witness ==
    \E c, d \in Callers :
        /\ wErr[c] = "err"
        /\ wErr[d] = "nil"
        /\ wPc[c] = "idle"
        /\ wPc[d] = "idle"
        /\ Len(clientPool) = PoolCap

\* ---- C1 (SyncSpec) ----------------------------------------------------
\* The Uris of the local playlist, and those of the daemon's queue.
LocalUris == [i \in DOMAIN playlist |-> playlist[i].uri]
QueueUris == [i \in DOMAIN queue |-> mpdToUri(queue[i])]

\* The Sync Loop has processed every notification there is: it waits at its
\* receive, the daemon has nothing to report, no playlist-changed event is
\* queued, and no SetPlaylist is under way.
Quiet ==
    /\ mlPc = "recv"
    /\ pendingNotif = {}
    /\ spPc = "idle"
    /\ \A i \in DOMAIN listener : listener[i] \notin {"mpd-playlist", "mpd-player"}

InReconcile == mlPc \in {"match", "status", "delete", "load"}
InHeadTransition == mlPc \in {"head", "seek", "incr"}
InSetPlaylist == spPc # "idle"
InPlaylist == plPc # "idle"
InSections ==
    {n \in {"reconcile", "head", "sp", "pl"} :
        \/ n = "reconcile" /\ InReconcile
        \/ n = "head" /\ InHeadTransition
        \/ n = "sp" /\ InSetPlaylist
        \/ n = "pl" /\ InPlaylist}

\* C14: at most one of the reconciliation, the head-transition handling,
\* SetPlaylist and Playlist() is inside its critical section, and the local
\* playlist last assigned by SetPlaylist is not replaced while SetPlaylist is
\* still inside its own.
C14_OneCriticalSection ==
    /\ Cardinality(InSections) <= 1
    /\ InSetPlaylist => playlistLock = "sp"
    /\ spPc = "state" => playlist = spPlist

\* SetPlaylist has changed the queue and not yet assigned the playlist, while
\* mainLoop waits for the lock with a playlist notification and a caller of
\* Playlist() waits too.
C14_Witness ==
    /\ spPc = "add"
    /\ mlPc = "lock"
    /\ plPc = "idle"
    /\ playlistLock = "sp"
    /\ queue # [i \in DOMAIN playlist |-> uriToMpd(playlist[i].uri)]

\* ---- C15 (OrderSpec) --------------------------------------------------
\* C15: a thread that has the playlist lock still to take is inside no
\* withMpd callback, whether it is about to take the lock or will take it
\* later in the same operation.
C15_LockBeforeConnection ==
    \A t \in Threads : "Lock" \in Range(oSteps[t]) => oHeld[t] = 0

\* A thread holds the lock and is inside two nested callbacks, and another
\* thread waits for the lock.
C15_Witness ==
    \E t, u \in Threads :
        /\ t # u
        /\ oLock = t
        /\ oHeld[t] = 2
        /\ AtStep(u, "Lock")
        /\ oHeld[u] = 0

\* ---- C16 (WatchSpec) --------------------------------------------------
\* The events of the notifications eventLoop has taken from the watcher, in
\* the order the watcher got them.
TakenEvents ==
    [i \in 1 .. (Len(hSent) - Len(wEvent)) |-> MpdEvent(hSent[i])]

\* C16: within a subscription eventLoop has emitted "availability" first and
\* then the event of each notification it has taken, once and in the order
\* of the notifications; before "availability" it has emitted nothing.
C16_AvailabilityThenNotifications ==
    /\ evPc = "loop" => hEmitted = <<"availability">> \o TakenEvents
    /\ evPc # "loop" => hEmitted = <<>>

\* A subscription in which two different notifications have been emitted
\* and a third waits in the watcher.
C16_Witness ==
    /\ evPc = "loop"
    /\ Len(hEmitted) = 3
    /\ hEmitted[2] # hEmitted[3]
    /\ wEvent # <<>>

\* ---- C17 (WatchSpec) --------------------------------------------------
\* C17: every call of NewWatcher but the first comes after a sleep.
C17_ReconnectAfterDelay ==
    (evPc = "connect" /\ evAttempts > 0) => evSlept

\* ---- C18 (WatchSpec) --------------------------------------------------
\* The emission of e reaches every subscriber whose channel has room and
\* leaves the channel of every other subscriber as it is.
Delivered(e) ==
    \A s \in Subscribers :
        subs'[s] = IF Len(subs[s]) < ListenerCap THEN Append(subs[s], e)
                   ELSE subs[s]

C19_TracksOnlyWhenIdle ==
    [][(\E s \in Subscribers : subs'[s] = Append(subs[s], "tracks"))
          => (lpPc = "checked" /\ lpStatus = "idle")]_vars

\* The update has completed, mainLoop has emitted "tracks" and is back at its
\* receive, and the subscriber has the event in its channel.
C19_Witness ==
    /\ hUpd = "done"
    /\ lpPc = "recv"
    /\ subs["sub"] # <<>>
    /\ subs["sub"][Len(subs["sub"])] = "tracks"

\* ---- C20 (WatchSpec) --------------------------------------------------
\* Nothing is left to do: the watcher is subscribed and holds no
\* notification or error, mainLoop waits for an event, no channel holds one.
WatchQuiet ==
    /\ evPc = "loop"
    /\ wEvent = <<>>
    /\ ~wError
    /\ lpPc = "recv"
    /\ \A s \in Subscribers : subs[s] = <<>>

\* C20: when an update has completed, no connection or command has failed and
\* nothing is left to do, the subscriber has received "tracks".
C20_UpdateGivesTracks ==
    (WatchQuiet /\ hUpd = "done" /\ ~hErr) => hTracks

\* ---- C27 (WatchSpec) --------------------------------------------------
\* C27: the event watcher holds at most one watcher that is not closed,
\* however often it has reconnected.
C27_AtMostOneOpenWatcher == openWatchers <= 1

\* ---- C21 (SyncSpec) ---------------------------------------------------
\* mainLoop is inside the callback of one of its handlers.
InHandler == InReconcile \/ InHeadTransition

\* C21: a step of a handler that does not end it with success, a failing
\* step in particular, leaves the playlist, the last observed head and the
\* listener channel as they were; the failing step releases the playlist
\* lock; after it mainLoop only logs and goes back to its receive.
C21_FailureLeavesStateAlone ==
    [][/\ (InHandler /\ mlPc' # mlPc /\ mlPc' # "recv") =>
            /\ playlist' = playlist
            /\ lastTrack' = lastTrack
            /\ listener' = listener
            /\ (mlPc' = "failed" => playlistLock' = "")
       /\ (mlPc = "failed" /\ mlPc' # mlPc) =>
            /\ mlPc' = "recv"
            /\ playlist' = playlist
            /\ lastTrack' = lastTrack
            /\ listener' = listener]_vars

\* A reconciliation of a changed queue has failed: the playlist still
\* differs from the queue, the lock is free and the next event waits.
C21_Witness ==
    /\ mlPc = "failed"
    /\ playlistLock = ""
    /\ LocalUris # QueueUris
    /\ listener # <<>>

AfterPlaylistEvents ==
    IF playlist' = <<>>
    THEN Emit(Emit(listener, "playlist"), "playlist-end")
    ELSE Emit(listener, "playlist")

\* The step assigns pl.playlist: it changes the playlist, or it is the end
\* of a reconciliation that went through (mpd.go:211), which may assign a
\* playlist equal to the old one.
PlaylistReplaced ==
    \/ playlist' # playlist
    \/ mlPc = "load" /\ mlPc' = "recv"

\* The step puts "playlist-end" into the listener channel.
PlaylistEndEmitted ==
    /\ Len(listener') > Len(listener)
    /\ listener'[Len(listener')] = "playlist-end"

\* SetPlaylist's call of SetState finds the daemon stopped with an empty
\* queue (mpd.go:489-492, 545-548).
NothingToPlay == spPc = "state" /\ queue = <<>> /\ mpdState # "play"

\* C24, amended: a step that replaces the playlist emits "playlist", and
\* "playlist-end" right after it when the new playlist is empty; the only
\* other step that emits "playlist-end" is that of SetState when it is to
\* start the playback of an empty queue, and it replaces nothing.
C24_PlaylistEndWhenEmptyOrNothingToPlay ==
    [][/\ PlaylistReplaced => listener' = AfterPlaylistEvents
       /\ PlaylistEndEmitted =>
            \/ PlaylistReplaced /\ playlist' = <<>>
            \/ NothingToPlay /\ ~PlaylistReplaced]_vars

\* The reconciliation has replaced the playlist by an empty one and the
\* listener channel ends with "playlist" and "playlist-end".
C24_Witness ==
    /\ playlist = <<>>
    /\ lastBy = "sync"
    /\ Len(listener) >= 2
    /\ listener[Len(listener) - 1] = "playlist"
    /\ listener[Len(listener)] = "playlist-end"

\* C24 as stated: a step that replaces the playlist emits "playlist", and
\* "playlist-end" right after it when the new playlist is empty; no other
\* step emits "playlist-end".
C24_PlaylistEndIffEmpty ==
    [][/\ PlaylistReplaced => listener' = AfterPlaylistEvents
       /\ PlaylistEndEmitted => (PlaylistReplaced /\ playlist' = <<>>)]_vars

\* ---- C28 (SyncSpec) ---------------------------------------------------
\* C28: a reconciliation that finds the Uris of the daemon's queue equal to
\* those of the local playlist ends there: nothing is deleted from the
\* queue, the local playlist is unchanged, nothing is emitted, and the
\* playlist is unlocked.
C28_InSyncIsNoOp ==
    [][(mlPc = "match" /\ mlPc' # "match" /\ LocalUris = QueueUris) =>
          /\ mlPc' \in {"recv", "failed"}
          /\ queue' = queue
          /\ song' = song
          /\ playlist' = playlist
          /\ listener' = listener
          /\ playlistLock' = ""]_vars

\* SetPlaylist has set a playlist that is not empty, and a reconciliation
\* that began after its last change of the queue has returned without an
\* error and without replacing the playlist.
C28_Witness ==
    /\ lastBy = "set"
    /\ syncOk
    /\ ~stale
    /\ playlist # <<>>
    /\ LocalUris = QueueUris
    /\ mlPc = "recv"
    /\ spPc = "idle"

\* ---- C29 (SyncSpec) ---------------------------------------------------
\* The step of a reconciliation that deletes from the daemon's queue.
ReconcileDeletes == mlPc = "delete" /\ mlPc' = "load"

\* C29: a reconciliation of a playlist out of sync deletes from the daemon's
\* queue exactly the entries before the play cursor, so that the entry at the
\* cursor becomes the head; it deletes nothing when the cursor is at 0; and
\* the playlist it then sets is the queue as fetched after the deletion.
C29_DeletesEntriesBeforeCursor ==
    [][/\ ReconcileDeletes =>
             /\ song > 0
             /\ queue' = SubSeq(queue, song + 1, Len(queue))
       /\ (mlPc \in {"match", "status", "load"} /\ mlPc' # mlPc
              /\ playlistLock = "main") => queue' = queue
       /\ (mlPc = "status" /\ mlPc' = "load") => song = 0
       /\ (mlPc = "load" /\ mlPc' = "recv") => LocalUris' = QueueUris']_vars

\* ---- C30 (SyncSpec) ---------------------------------------------------
\* The head of the playlist is not the last observed one.
HeadTransition ==
    /\ playlist # <<>>
    /\ lastTrack # NoUri
    /\ lastTrack # playlist[1].uri

\* C30: on a head transition the handler seeks to the new head's progress,
\* if that is not 0, before it counts the play; a failed seek or count leaves
\* the last observed head as it was; the last observed head becomes the
\* head's Uri when seek and count succeed and when, on a playlist that is
\* not empty, there is no transition; nothing else changes it.
C30_SeekThenCountThenRecord ==
    [][/\ (mlPc = "head" /\ mlPc' \notin {"head", "failed"}) =>
             IF HeadTransition
             THEN /\ mlPc' = IF playlist[1].progress # 0 THEN "seek" ELSE "incr"
                  /\ lastTrack' = lastTrack
                  /\ stickers' = stickers
             ELSE /\ mlPc' = "recv"
                  /\ stickers' = stickers
                  /\ lastTrack' = IF playlist = <<>> THEN lastTrack
                                  ELSE playlist[1].uri
       /\ (mlPc = "seek" /\ mlPc' # "seek") =>
             /\ mlPc' \in {"incr", "failed"}
             /\ stickers' = stickers
             /\ lastTrack' = lastTrack
       /\ (mlPc = "incr" /\ mlPc' # "incr") =>
             /\ mlSeek = playlist[1].progress
             /\ \/ /\ mlPc' = "failed"
                   /\ stickers' = stickers
                \/ /\ mlPc' = "recv"
                   /\ stickers' = incrementPlayCount(playlist[1].uri)
                   /\ lastTrack' = playlist[1].uri
       /\ mlPc' = "failed" => lastTrack' = lastTrack
       /\ lastTrack' # lastTrack => mlPc \in {"head", "incr"}]_vars

\* The handler has sought to the progress of a new head from the catalogue
\* and is about to count its play.
C30_Witness ==
    /\ mlPc = "incr"
    /\ HeadTransition
    /\ mlSeek # 0
    /\ mlSeek = playlist[1].progress
    /\ InCatalogue(playlist[1].uri)

\* ---- C31 (SetSpec) ---------------------------------------------------
\* The songs of a playlist as the daemon names them.
ToMpd(plist) == [i \in DOMAIN plist |-> uriToMpd(plist[i].uri)]

\* The first n elements of a sequence, or all of it when it has fewer.
FirstN(sq, n) == SubSeq(sq, 1, IF n < Len(sq) THEN n ELSE Len(sq))

\* What follows the first n elements of a sequence.
AfterN(sq, n) == IF n < Len(sq) THEN SubSeq(sq, n + 1, Len(sq)) ELSE <<>>

\* The length of the longest common prefix of two sequences.
CommonPrefix(a, b) ==
    CHOOSE n \in 0 .. Len(a) :
        /\ n <= Len(b)
        /\ SubSeq(a, 1, n) = SubSeq(b, 1, n)
        /\ \A m \in (n + 1) .. Len(a) :
              m > Len(b) \/ SubSeq(a, 1, m) # SubSeq(b, 1, m)

\* C31: with no other client changing the queue, the step by which
\* SetPlaylist(list) returns nil leaves the daemon's queue and the local
\* playlist equal to list; and no step of the call touches the longest
\* common prefix of the queue and list: the delete removes exactly the rest
\* of the queue, the adds append exactly the rest of list.
C31_SetPlaylistSetsQueueAndPlaylist ==
    [][/\ (spPc # "idle" /\ spErr' = "nil") =>
             /\ playlist' = spPlist
             /\ queue' = ToMpd(spPlist)
       /\ spPc # "idle" =>
             LET n == CommonPrefix(queue, ToMpd(spPlist))
             IN  FirstN(queue', n) = FirstN(queue, n)
       /\ (spPc = "delete" /\ spPc' = "add") =>
             queue' = FirstN(queue, CommonPrefix(queue, ToMpd(spPlist)))
       /\ (spPc = "add" /\ spPc' # "add" /\ spErr' # "err") =>
             queue' = queue \o AfterN(ToMpd(spPlist), Len(queue))]_vars

\* SetPlaylist has returned nil for a playlist of two tracks or more, which
\* is the local playlist and the daemon's queue.
C31_Witness ==
    /\ spPc = "idle"
    /\ spErr = "nil"
    /\ lastBy = "set"
    /\ Len(playlist) >= 2
    /\ queue = ToMpd(playlist)

\* ---- C32 (SyncSpec) ---------------------------------------------------
\* The call of SetPlaylist is past pl.playlist = plist and Emit("playlist")
\* (mpd.go:484-485).
SpHasReplaced == spPc = "state"

\* C32: a SetPlaylist that returns an error has not replaced the local
\* playlist and has emitted nothing, whichever command failed.
C32_ErrorLeavesPlaylistAlone ==
    [][(spPc # "idle" /\ spErr' = "err") =>
          /\ ~SpHasReplaced
          /\ playlist' = playlist
          /\ listener' = listener]_vars

\* ---- C4 (SyncSpec) ----------------------------------------------------
\* One step, seen from catalogue file f: the observed head changes to the
\* Uri of f from another observed head.
HeadTransitionTo(f) ==
    /\ lastTrack' = <<URI_SCHEMA, f>>
    /\ lastTrack # lastTrack'
    /\ lastTrack # NoUri

ReconcileReplaces == mlPc = "load" /\ mlPc' = "recv" /\ syncOk'

UriA == <<URI_SCHEMA, "a">>
UriB == <<URI_SCHEMA, "b">>
UriC == <<URI_SCHEMA, "c">>

\* The Sync Loop handles a "playlist" event after a reconciliation that
\* replaced [a, b, c], with a the observed head, by [b, c], and completes
\* the handling.
AfterAFinished ==
    /\ mlPc = "incr"
    /\ finished = UriA
    /\ lastTrack = UriA
    /\ LocalUris = <<UriB, UriC>>
    /\ lastTrack' # lastTrack

\* C9 as the spec states it: in that handling the play count of a grows by
\* one, and the local playlist is [b, c].
C9_CountsFinishedTrack ==
    [][AfterAFinished =>
         /\ playlist' = playlist
         /\ stickers'["a"] = stickers["a"] + 1]_vars

\* C9, amended: in that handling the play count of b, the new head, grows
\* by one, the count of a stays as it is, and the local playlist is [b, c].
C9_CountsNewHead ==
    [][AfterAFinished =>
         /\ playlist' = playlist
         /\ lastTrack' = UriB
         /\ stickers'["b"] = stickers["b"] + 1
         /\ stickers'["a"] = stickers["a"]]_vars

\* The handling is done: b is the observed head and has been counted once,
\* a has not, and the local playlist is [b, c].
C9_Witness ==
    /\ mlPc = "recv"
    /\ finished = UriA
    /\ lastTrack = UriB
    /\ LocalUris = <<UriB, UriC>>
    /\ stickers["b"] = 1
    /\ stickers["a"] = 0

\* ---- C6 (CacheSpec) ---------------------------------------------------
\* C6: while every load so far was made by a Tracks() caller that found
\* nothing cached, and succeeded, the callers together have executed the
\* underlying Player.Tracks() reload at most once.
C6_SingleReload == cClean => cLoads <= 1

\* ---- C11 (CacheSpec) --------------------------------------------------
\* C11: once a reload has succeeded (the cache holds a list), a reader at
\* the error test of Tracks() or TrackInfo() finds no stored error, so the
\* call returns the loaded catalogue and not the error of an earlier failed
\* reload.
C11_SuccessfulReloadClearsError ==
    \A p \in Callers :
        (p \in rwReaders /\ cPc[p] \in {"check", "use"} /\ cTracks # <<>>)
            => cErr = ""

\* ---- C7 (FilterSpec) --------------------------------------------------
\* The places of the tracks the filter keeps.
Kept == {i \in DOMAIN fTracks : FilterOk(i)}

\* C7: when Tracks has returned, its results hold exactly one result for
\* each track the filter keeps, the one the filter gave, and nothing else:
\* whatever the number of workers and their scheduling.
C7_ResultsAreTheKeptTracks ==
    fPc \in {"returned", "ranked"} =>
        /\ Len(results) = Cardinality(Kept)
        /\ \A i \in Kept : \E k \in DOMAIN results : results[k] = FilterResult(i)
        /\ \A k \in DOMAIN results : results[k].uri \in Kept

\* Two workers have filtered a catalogue of which some tracks are kept and
\* one is not, and Tracks has returned.
C7_Witness ==
    /\ fPc = "returned"
    /\ numCPU = 2
    /\ Len(results) >= 2
    /\ Cardinality(Kept) < Len(fTracks)
    /\ results[1].uri > results[2].uri

\* ---- C8 (FilterSpec) --------------------------------------------------
\* The kept tracks' results in catalogue order.
RECURSIVE KeptInOrder(_)
KeptInOrder(n) ==
    IF n = 0 THEN <<>>
    ELSE IF FilterOk(n) THEN Append(KeptInOrder(n - 1), FilterResult(n))
    ELSE KeptInOrder(n - 1)

\* C8: the ranked results are in descending match count, and results with
\* equal counts are in catalogue order: for every worker scheduling.
C8_RankedTiesInCatalogueOrder ==
    fPc = "ranked" =>
        \A j, k \in DOMAIN ranked :
            j < k =>
                /\ NumMatches(ranked[j]) >= NumMatches(ranked[k])
                /\ NumMatches(ranked[j]) = NumMatches(ranked[k])
                      => ranked[j].uri < ranked[k].uri

\* ---- C34 (FilterFairSpec) ---------------------------------------------
\* The goroutines Tracks started: the workers that run.
Running == {w \in Workers : w <= numCPU}

\* The producer has left (its deferred close(trackStream) is done) and every
\* worker is past its wg.Done().
AllExited == tsClosed /\ \A w \in Running : wkPc[w] = "done"

\* matchStream is closed only after every worker is through, no worker has
\* sent on the closed matchStream, and once Tracks has returned no goroutine
\* is left behind.
FilterSafe ==
    /\ msClosed => (wg = 0 /\ AllExited)
    /\ \A w \in Workers : wkPc[w] # "panic"
    /\ fPc # "collect" => (msClosed /\ AllExited)

\* C34: for every catalogue, the empty one included, and every verdict of
\* the filter, Tracks returns; matchStream is closed only after all workers
\* have finished, no worker sends on the closed matchStream, and when Tracks
\* returns the producer and every worker have exited.
C34_TracksTerminatesCleanly == []FilterSafe /\ <>(fPc # "collect")

\* Tracks, with two workers, has returned at least two matches of a full
\* catalogue of which a track was dropped; the workers and the producer are
\* gone.
C34_Witness ==
    /\ fPc = "returned"
    /\ numCPU = MaxCPU
    /\ Len(fTracks) = MaxTracks
    /\ Len(results) >= 2
    /\ Len(results) < Len(fTracks)
    /\ AllExited
    /\ wg = 0

\* ---- C33 (CacheSpec) --------------------------------------------------
\* The "tracks" event Run has received and not yet emitted again.
RunInFlight == IF cPc[RunId] = "idle" THEN <<>> ELSE <<"tracks">>

\* C33: Run emits the events of the player again in the order it received
\* them, none lost and none added; and once it has emitted the n-th "tracks"
\* again, the cache holds no catalogue fetched before the player emitted
\* that event (it holds none, or one fetched after it), so that Tracks()
\* cannot return an older one.  A catalogue fetched after the player's last
\* "tracks" is the daemon's current one.
C33_ForwardsInOrderAfterReload ==
    /\ cSent = cOut \o RunInFlight \o cListener
    /\ cTracks # <<>> => cVer >= NumTracksEvents(cOut)
    /\ (cTracks # <<>> /\ cVer = NumTracksEvents(cSent)) => cTracks = <<dbTracks>>

\* The cache held a catalogue, the player emitted "playlist" and then
\* "tracks", Run has emitted both again, and a caller of Tracks() is about to
\* return the catalogue of the second load.
C33_Witness ==
    \E p \in Callers :
        /\ cPc[p] = "use"
        /\ cOp[p] = "Tracks"
        /\ cOut = <<"playlist", "tracks">>
        /\ cLoads = 2
        /\ cErr = ""
        /\ cTracks # <<>>
        /\ cVer = 1

\* ---- C10 (CacheSpec) --------------------------------------------------
\* The index and the list agree: both nil or both set, and every key of the
\* index points at a slot of the list that holds a track of that Uri.
CacheConsistent ==
    /\ (cTracks = <<>>) <=> (cIndex = <<>>)
    /\ cIndex # <<>> =>
          \A u \in DOMAIN cIndex[1] :
              /\ cIndex[1][u] \in 1 .. Len(cTracks[1])
              /\ cTracks[1][cIndex[1][u]] = u

\* C10: whenever a reader holds the cache lock, and whenever no goroutine
\* holds it exclusively, the index and the list agree.
C10_IndexConsistentUnderLock ==
    (rwReaders # {} \/ rwW = 0) => CacheConsistent

\* A reader at its lookup holds the lock on a cache that a second load has
\* filled, with an index that has keys.
C10_Witness ==
    \E p \in Callers :
        /\ cPc[p] = "use"
        /\ p \in rwReaders
        /\ cLoads = 2
        /\ cIndex # <<>>
        /\ DOMAIN cIndex[1] # {}

=============================================================================
